---------------------------- MODULE Spec2Model ----------------------------
(***************************************************************************)
(* Reliable datagram transport of src/network/udp.py: the wire codec       *)
(* (UDPPacket and its five subclasses) and the transport engine            *)
(* (UDPTransmitter): send pipeline, retransmission pass, ACK handling,     *)
(* receive-side reassembly and port (liveness) checks.                     *)
(*                                                                         *)
(* Two engines, "A" and "B", run the same code and exchange datagrams over *)
(* a channel that may lose, duplicate and reorder them.  Datagrams are     *)
(* byte sequences produced by build() and read back by parse().            *)
(***************************************************************************)
EXTENDS Integers, Sequences, FiniteSets, TLC

(***************************************************************************)
(* Bounds of the model.                                                    *)
(***************************************************************************)
\* DataPacket.MAX_DATA_SIZE / FullPacket.MAX_DATA_SIZE (1400 in the source),
\* scaled down so that fragmentation happens with payloads of a few bytes.
MAX_DATA_SIZE == 2
\* number of send_to / check_port calls the application makes
MaxCalls == 2
\* number of packets with a body (FULL, DATA) and of probes the application
\* may ask for in all its calls together
MaxLoad == 2
\* cap of the per-event emission counters (events are counted 0, 1, "many")
MaxCount == 2
\* number of datagrams the channel may corrupt (corrupting channel only)
MaxCorrupt == 1
\* number of sendto calls followed per PendingSend when the socket fails
MaxAttempts == 5
\* send requests made to a dispatcher, and calls a dispatcher makes to its
\* network manager
MaxRequests == 2
MaxTransportCalls == 2
\* packets arriving at the server, and advances of its clock
MaxInbound == 3
MaxTicks == 2

(***************************************************************************)
(* Program constants.                                                      *)
(***************************************************************************)
HEADER_PACKET == 0
DATA_PACKET == 1
FULL_PACKET == 2
ACK_PACKET == 3
CHECK_PORT_PACKET == 4

ACK_NORMAL == 0
ACK_CONFIRM == 1
ACK_RETRANSMIT == 2
ACK_CHECKPORT == 3

MAX_RETRIES == 3
U16_MOD == 65536
OFFLINE_THRESHOLD == 60
SEED_MAX == 65535
UDP_HEADER_SIZE == 12
CHECKSUM_MOD == 65536

PacketTypes == {HEADER_PACKET, DATA_PACKET, FULL_PACKET, ACK_PACKET, CHECK_PORT_PACKET}
AckStatuses == {ACK_NORMAL, ACK_CONFIRM, ACK_RETRANSMIT, ACK_CHECKPORT}
ModuleNames == {"node", "database", "plugin"}

(***************************************************************************)
(* Wire codec.                                                             *)
(***************************************************************************)
\* UDPPacket.MODENAME_ID_MAP.get(modename, -1)
model_id(modename) ==
    CASE modename = "node" -> 0
      [] modename = "database" -> 1
      [] modename = "plugin" -> 2
      [] OTHER -> -1

\* the tag of an unregistered identifier without the identifier
modename_untagged(id) ==
    CASE id = 0 -> "node"
      [] id = 1 -> "database"
      [] id = 2 -> "plugin"
      [] OTHER -> "unknown"

\* UDPPacket.MODENAME_MAP.get(model_id, f"unknown({model_id})")
modename_of(id) ==
    CASE id = 0 -> "node"
      [] id = 1 -> "database"
      [] id = 2 -> "plugin"
      [] OTHER -> "unknown(" \o ToString(id) \o ")"

\* struct.pack("!B"), ("!H"), ("!I"): big-endian unsigned integers
PackU8(v) == <<v>>
PackU16(v) == <<v \div 256, v % 256>>
PackU32(v) == <<v \div 16777216, (v \div 65536) % 256, (v \div 256) % 256, v % 256>>

\* A sequence number is an unsigned 32-bit integer.  The model checker's
\* integers are 32-bit signed, so a sequence number is held as its two
\* 16-bit halves <<high, low>> and packed big-endian, high half first.
SeqNum(high, low) == <<high, low>>
PackSeq(s) == PackU16(s[1]) \o PackU16(s[2])

\* struct.unpack of a big-endian unsigned integer of n bytes starting at
\* byte offset off (0-based) of the datagram b
RECURSIVE Unpack(_, _, _)
Unpack(b, off, n) ==
    IF n = 0 THEN 0 ELSE Unpack(b, off, n - 1) * 256 + b[off + n]

UnpackSeq(b, off) == SeqNum(Unpack(b, off, 2), Unpack(b, off + 2, 2))

\* data[off:] of a byte string
SliceFrom(b, off) == IF Len(b) <= off THEN <<>> ELSE SubSeq(b, off + 1, Len(b))

\* sum(bytes)
RECURSIVE SumBytes(_)
SumBytes(b) == IF b = <<>> THEN 0 ELSE Head(b) + SumBytes(Tail(b))

\* A packet object: the attributes of UDPPacket and its subclasses.  The
\* attributes a kind does not have (total_length, packet_count) are 0.
Packet(type, ack, modename, node_id) ==
    [packet_type |-> type, ack_status |-> ack, checksum |-> 0,
     modename |-> modename, node_id |-> node_id, sequence_num |-> SeqNum(0, 0),
     packet_num |-> 0, total_length |-> 0, packet_count |-> 0, data |-> <<>>]

\* the constructors of the five subclasses
HeaderPacket(modename, node_id) == Packet(HEADER_PACKET, ACK_NORMAL, modename, node_id)
DataPacket(modename, node_id) == Packet(DATA_PACKET, ACK_NORMAL, modename, node_id)
FullPacket(modename, node_id) == Packet(FULL_PACKET, ACK_NORMAL, modename, node_id)
ACKPacket(modename, node_id) == Packet(ACK_PACKET, ACK_CONFIRM, modename, node_id)
CheckPortPacket(modename, node_id) == Packet(CHECK_PORT_PACKET, ACK_NORMAL, modename, node_id)

\* what parse() returns for input it rejects
NoPacket == Packet(-1, 0, "", 0)

\* the per-kind tail of the header, in the order build() packs it
TailBytes(p) ==
    CASE p.packet_type \in {HEADER_PACKET, FULL_PACKET} ->
             PackU32(p.total_length) \o PackU32(p.packet_count)
               \o PackSeq(p.sequence_num) \o PackU32(p.packet_num)
      [] p.packet_type = DATA_PACKET ->
             PackSeq(p.sequence_num) \o PackU32(p.packet_num)
      [] OTHER ->
             PackU32(p.packet_num) \o PackSeq(p.sequence_num)

\* the body build() appends: HEADER, ACK and PROBE have none
BodyBytes(p) ==
    IF p.packet_type \in {DATA_PACKET, FULL_PACKET} THEN p.data ELSE <<>>

\* <Kind>Packet.build()
build(p) ==
    IF model_id(p.modename) = -1 THEN <<>>
    ELSE PackU8(p.packet_type) \o PackU8(p.ack_status) \o PackU16(p.checksum)
           \o PackU32(model_id(p.modename)) \o PackU32(p.node_id)
           \o TailBytes(p) \o BodyBytes(p)

\* <Kind>Packet.calculate_checksum(): the header without the checksum field
\* plus the body, summed and truncated to 16 bits
calculate_checksum(p) ==
    IF model_id(p.modename) = -1 THEN 0
    ELSE SumBytes(PackU8(p.packet_type) \o PackU8(p.ack_status)
                    \o PackU32(model_id(p.modename)) \o PackU32(p.node_id)
                    \o TailBytes(p) \o BodyBytes(p)) % CHECKSUM_MOD

\* UDPPacket.verify_checksum()
verify_checksum(p) == p.checksum = calculate_checksum(p)

\* HEADER_SIZE of each subclass
HeaderSize(type) ==
    IF type \in {HEADER_PACKET, FULL_PACKET} THEN UDP_HEADER_SIZE + 16
    ELSE UDP_HEADER_SIZE + 8

\* the ack_status of a parsed packet: parse() builds the object with the
\* subclass constructor and never copies the ack_status byte it unpacked
ParsedAckStatus(type, wire_ack) ==
    IF type = ACK_PACKET THEN ACK_CONFIRM ELSE ACK_NORMAL

\* UDPPacket.parse(data)
parse(b) ==
    IF Len(b) < UDP_HEADER_SIZE THEN NoPacket
    ELSE LET type == Unpack(b, 0, 1)
             wire_ack == Unpack(b, 1, 1)
             checksum == Unpack(b, 2, 2)
             modename == modename_of(Unpack(b, 4, 4))
             node_id == Unpack(b, 8, 4)
             base == [Packet(type, ParsedAckStatus(type, wire_ack), modename, node_id)
                        EXCEPT !.checksum = checksum]
         IN  IF type \notin PacketTypes THEN NoPacket
             ELSE IF Len(b) < HeaderSize(type) THEN NoPacket
             ELSE CASE type = FULL_PACKET ->
                         [base EXCEPT !.total_length = Unpack(b, 12, 4),
                                      !.packet_count = Unpack(b, 16, 4),
                                      !.sequence_num = UnpackSeq(b, 20),
                                      !.packet_num = Unpack(b, 24, 4),
                                      !.data = SliceFrom(b, HeaderSize(type))]
                    [] type = HEADER_PACKET ->
                         [base EXCEPT !.total_length = Unpack(b, 12, 4),
                                      !.packet_count = Unpack(b, 16, 4),
                                      !.sequence_num = UnpackSeq(b, 20),
                                      !.packet_num = Unpack(b, 24, 4)]
                    [] type = DATA_PACKET ->
                         [base EXCEPT !.sequence_num = UnpackSeq(b, 12),
                                      !.packet_num = Unpack(b, 16, 4),
                                      !.data = SliceFrom(b, HeaderSize(type))]
                    [] OTHER ->
                         [base EXCEPT !.packet_num = Unpack(b, 12, 4),
                                      !.sequence_num = UnpackSeq(b, 16)]


(***************************************************************************)
(* Transport engine: state.                                                *)
(***************************************************************************)
Engines == {"A", "B"}
\* the engines whose application calls send_to / check_port
Callers == {"A"}
Peer(e) == IF e = "A" THEN "B" ELSE "A"

\* the payloads the application sends: one that fits a FULL packet and one
\* that is fragmented
PayloadOf(L) == [i \in 1..L |-> 64 + i]
PayloadLens == {1, MAX_DATA_SIZE + 1}
Payloads == {PayloadOf(L) : L \in PayloadLens}
NodeId == 7

\* sequence_counter after construction is random.randint(1, 0xFFFF); an
\* engine that has been running long enough is about to wrap
InitCounters == {SeqNum(0, SEED_MAX), SeqNum(U16_MOD - 1, U16_MOD - 2)}

VARIABLES
    send_queue,             \* [engine -> queue.Queue of send tasks]
    sequence_counter,       \* [engine -> u32]
    pending_transmissions,  \* [engine -> dict (in insertion order) of PendingSend]
    pending_receptions,     \* [engine -> dict recv_key -> PendingReceive]
    port_check_targets,     \* [engine -> dict addr -> [online, retry_count]]
    send_pc,                \* [engine -> position of the send thread]
    retransmit_keys,        \* [engine -> keys the send thread still has to transmit]
    lock_stuck,             \* [engine -> the receive thread blocks on the lock it holds]
    transmission_complete,  \* [engine -> emitted signals, counted]
    transmission_failed,
    ack_received,
    port_status_changed,
    net,                    \* datagrams in flight
    sent_log,               \* the messages _send_data has registered
    ack_replayed,           \* [engine -> an ACK arrived for an entry already acknowledged]
    calls,                  \* application calls made so far
    load,                   \* packets with a body and probes asked for so far
    corrupted,              \* datagrams the channel has corrupted so far
    codec,                  \* codec round trip: [stage, p, wire, out]
    arrived,                \* the datagrams a once-only channel has delivered
    emit_held,              \* [engine -> the emissions made, each with the mutexes held]
    recv_running,           \* [engine -> the run flag; close() clears it and closes the socket]
    client,                 \* the client dispatcher (NetUDPQue of net_udp_que_client.py)
    server,                 \* the server dispatcher (NetUDPQue of net_udp_que_server.py)
    threads                 \* [thread -> the routine it runs, its position, the mutexes it holds]

engine_vars == <<send_queue, sequence_counter, pending_transmissions, pending_receptions,
                 port_check_targets, send_pc, retransmit_keys, lock_stuck, recv_running>>
signal_vars == <<transmission_complete, transmission_failed, ack_received, port_status_changed,
                 emit_held>>
vars == <<send_queue, sequence_counter, pending_transmissions, pending_receptions,
          port_check_targets, send_pc, retransmit_keys, lock_stuck,
          transmission_complete, transmission_failed, ack_received, port_status_changed,
          net, sent_log, ack_replayed, calls, load, corrupted, codec,
          arrived, emit_held, recv_running, client, server, threads>>

(***************************************************************************)
(* Dictionaries and signal counters.                                       *)
(***************************************************************************)
\* dict with insertion order: a sequence of entries, each with a key field
DictKeys(d) == {d[i].key : i \in 1..Len(d)}
DictHas(d, key) == key \in DictKeys(d)
DictGet(d, key) == d[CHOOSE i \in 1..Len(d) : d[i].key = key]
\* d[key] = entry: replaces in place, or appends
DictPut(d, entry) ==
    IF DictHas(d, entry.key)
    THEN [i \in 1..Len(d) |-> IF d[i].key = entry.key THEN entry ELSE d[i]]
    ELSE Append(d, entry)
\* every entry of the message of key is deleted
DictDelMessage(d, key) == SelectSeq(d, LAMBDA t : t.key[3] # key[3])

\* nothing is deleted
DictDelNothing(d, key) == d

\* del d[key]
DictDel(d, key) == SelectSeq(d, LAMBDA t : t.key # key)
\* list(d.keys())
DictKeyList(d) == [i \in 1..Len(d) |-> d[i].key]

\* dict without order: a function; f[k] = v
FunPut(f, k, v) == (k :> v) @@ f
FunDel(f, k) == [x \in DOMAIN f \ {k} |-> f[x]]

\* signal.emit(ev): the emissions of each event are counted up to MaxCount
Emit(bag, ev) ==
    IF ev \in DOMAIN bag
    THEN [bag EXCEPT ![ev] = IF @ < MaxCount THEN @ + 1 ELSE @]
    ELSE (ev :> 1) @@ bag
Count(bag, ev) == IF ev \in DOMAIN bag THEN bag[ev] ELSE 0

\* sock.sendto(bytes, dest) by engine e
Datagram(e, dest, bytes) == [src |-> e, dst |-> dest, bytes |-> bytes]


(***************************************************************************)
(* Send pipeline: UDPTransmitter.send_to, _send_data, check_port.          *)
(***************************************************************************)
\* the entry _queue_for_transmission stores; transmissions counts the
\* datagrams written to the socket for the entry, attempts the sendto calls
\* made for it (successful or not)
PendingSend(key, packet, data, dest_addr) ==
    [key |-> key, packet |-> packet, data |-> data, dest_addr |-> dest_addr,
     retry_count |-> 0, last_sent |-> 0, sent |-> FALSE,
     transmissions |-> 0, attempts |-> 0]

\* the counter incremented without the mask & 0xFFFFFFFF
NextSequenceNoWrap(counter) ==
    IF counter[2] = U16_MOD - 1
    THEN SeqNum(counter[1] + 1, 0)
    ELSE SeqNum(counter[1], counter[2] + 1)

\* _send_data: self.sequence_counter = (self.sequence_counter + 1) & 0xFFFFFFFF
NextSequence(counter) ==
    IF counter[2] = U16_MOD - 1
    THEN SeqNum((counter[1] + 1) % U16_MOD, 0)
    ELSE SeqNum(counter[1], counter[2] + 1)

\* a payload of exactly MAX_DATA_SIZE bytes is fragmented
UsesFullPacketStrict(data) == Len(data) < MAX_DATA_SIZE

\* _send_data: len(data) <= FullPacket.MAX_DATA_SIZE
UsesFullPacket(data) == Len(data) <= MAX_DATA_SIZE

\* the fragment count rounded down
PacketCountFloor(len) == len \div MAX_DATA_SIZE

\* _send_data: header.packet_count
PacketCount(len) == (len + MAX_DATA_SIZE - 1) \div MAX_DATA_SIZE

\* _send_data: the number of iterations of range(0, len(data), MAX_DATA_SIZE)
RangeLen(len) == IF len = 0 THEN 0 ELSE (len - 1) \div MAX_DATA_SIZE + 1

\* _send_data: data[i:i+MAX_DATA_SIZE] of the n-th iteration (n = 1, 2, ...)
Chunk(data, n) ==
    LET i == (n - 1) * MAX_DATA_SIZE
        j == IF i + MAX_DATA_SIZE < Len(data) THEN i + MAX_DATA_SIZE ELSE Len(data)
    IN  SubSeq(data, i + 1, j)

\* _send_data: the FULL packet of a short payload
FullEntry(task, seq) ==
    LET p0 == [FullPacket(task.modename, task.node_id) EXCEPT
                  !.sequence_num = seq, !.data = task.data,
                  !.total_length = Len(task.data), !.packet_count = 1,
                  !.packet_num = 0]
        p == [p0 EXCEPT !.checksum = calculate_checksum(p0)]
    IN  PendingSend(<<task.modename, task.node_id, seq, 0>>, p, task.data, task.dest_addr)

\* _send_data: the HEADER packet of a long payload
HeaderEntry(task, seq) ==
    LET p0 == [HeaderPacket(task.modename, task.node_id) EXCEPT
                  !.sequence_num = seq, !.packet_num = 0,
                  !.total_length = Len(task.data),
                  !.packet_count = PacketCount(Len(task.data))]
        p == [p0 EXCEPT !.checksum = calculate_checksum(p0)]
    IN  PendingSend(<<task.modename, task.node_id, seq, 0>>, p, task.data, task.dest_addr)

\* _send_data: the n-th DATA packet; its checksum is computed before its
\* packet_num is assigned
DataEntry(task, seq, n) ==
    LET p0 == [DataPacket(task.modename, task.node_id) EXCEPT
                  !.sequence_num = seq, !.data = Chunk(task.data, n)]
        p == [p0 EXCEPT !.checksum = calculate_checksum(p0), !.packet_num = n]
    IN  PendingSend(<<task.modename, task.node_id, seq, n>>, p, Chunk(task.data, n),
                    task.dest_addr)

\* the entries _send_data registers for one task, in registration order
SendEntries(task, seq) ==
    IF UsesFullPacket(task.data)
    THEN <<FullEntry(task, seq)>>
    ELSE <<HeaderEntry(task, seq)>>
           \o [n \in 1..RangeLen(Len(task.data)) |-> DataEntry(task, seq, n)]

\* _queue_for_transmission applied to each entry in turn
RECURSIVE QueueAll(_, _)
QueueAll(d, entries) ==
    IF entries = <<>> THEN d ELSE QueueAll(DictPut(d, Head(entries)), Tail(entries))

Task(modename, node_id, data, dest_addr) ==
    [modename |-> modename, node_id |-> node_id, data |-> data, dest_addr |-> dest_addr]

\* the number of packets with a body a payload is sent as
Load(data) == IF UsesFullPacket(data) THEN 1 ELSE RangeLen(Len(data))

\* UDPTransmitter.send_to: put the task on the send queue
SendTo(e, task) ==
    /\ e \in Callers
    /\ calls < MaxCalls
    /\ load + Load(task.data) <= MaxLoad
    /\ calls' = calls + 1
    /\ load' = load + Load(task.data)
    /\ send_queue' = [send_queue EXCEPT ![e] = Append(@, task)]
    /\ UNCHANGED <<sequence_counter, pending_transmissions, pending_receptions,
                   port_check_targets, send_pc, retransmit_keys, lock_stuck,
                   signal_vars, net, sent_log, ack_replayed, corrupted, codec, recv_running, client, server, threads,
                   arrived>>

\* UDPTransmitter.check_port: register a PROBE
CheckPort(e, dest_addr, modename, node_id) ==
    /\ e \in Callers
    /\ calls < MaxCalls
    /\ load + 1 <= MaxLoad
    /\ load' = load + 1
    /\ ~lock_stuck[e]
    /\ LET seq == NextSequence(sequence_counter[e])
           p0 == [CheckPortPacket(modename, node_id) EXCEPT !.sequence_num = seq]
           p == [p0 EXCEPT !.checksum = calculate_checksum(p0)]
       IN  /\ sequence_counter' = [sequence_counter EXCEPT ![e] = seq]
           /\ port_check_targets' =
                 [port_check_targets EXCEPT ![e] =
                     IF dest_addr \in DOMAIN @ THEN @
                     ELSE FunPut(@, dest_addr, [online |-> FALSE, retry_count |-> 0])]
           /\ pending_transmissions' =
                 [pending_transmissions EXCEPT ![e] =
                     DictPut(@, PendingSend(<<modename, node_id, seq, 0>>, p, <<>>, dest_addr))]
    /\ calls' = calls + 1
    /\ UNCHANGED <<send_queue, pending_receptions, send_pc, retransmit_keys, lock_stuck,
                   signal_vars, net, sent_log, ack_replayed, corrupted, codec, recv_running, client, server, threads,
                   arrived>>

\* _send_loop: a task is taken from the queue and _send_data registers it
SendTask(e) ==
    /\ send_pc[e] = "get"
    /\ send_queue[e] # <<>>
    /\ ~lock_stuck[e]
    /\ LET task == Head(send_queue[e])
           seq == NextSequence(sequence_counter[e])
       IN  /\ sequence_counter' = [sequence_counter EXCEPT ![e] = seq]
           /\ pending_transmissions' =
                 [pending_transmissions EXCEPT ![e] = QueueAll(@, SendEntries(task, seq))]
           /\ sent_log' = sent_log \cup
                 {[src |-> e, modename |-> task.modename, node_id |-> task.node_id,
                   seq |-> seq, data |-> task.data, dest_addr |-> task.dest_addr,
                   prev_counter |-> sequence_counter[e]]}
    /\ send_queue' = [send_queue EXCEPT ![e] = Tail(@)]
    /\ send_pc' = [send_pc EXCEPT ![e] = "check"]
    /\ UNCHANGED <<pending_receptions, port_check_targets, retransmit_keys, lock_stuck,
                   signal_vars, net, ack_replayed, calls, load, corrupted, codec, recv_running, client, server, threads,
                   arrived>>


(***************************************************************************)
(* Liveness of remote endpoints: _update_port_status.                      *)
(***************************************************************************)
\* the flag is set whatever the observation was
PortStatusOnline(targets, addr, online) == [online |-> TRUE, retry_count |-> 0]

\* the entry _update_port_status stores for addr
PortStatus(targets, addr, online) ==
    LET cur == IF addr \in DOMAIN targets THEN targets[addr]
               ELSE [online |-> FALSE, retry_count |-> 0]
    IN  IF online THEN [cur EXCEPT !.online = TRUE, !.retry_count = 0]
        ELSE [cur EXCEPT !.online = FALSE]

\* port_check_targets after _update_port_status(addr, online)
UpdatePortStatus(targets, addr, online) ==
    FunPut(targets, addr, PortStatus(targets, addr, online))

\* the port_status_changed signal _update_port_status emits
PortStatusEvent(targets, addr, online) ==
    [addr |-> addr, online |-> PortStatus(targets, addr, online).online]

\* is_port_online(addr) on the table targets
is_port_online(targets, addr) ==
    IF addr \in DOMAIN targets THEN targets[addr].online ELSE FALSE

(***************************************************************************)
(* Retransmission pass: _check_retransmissions.                            *)
(***************************************************************************)
\* now - transmission['last_sent'] > 1.0: last_sent = 0 is always overdue;
\* a real time stamp (1) is overdue when the clock says so (key in overdue)
TimedOut(t, overdue) == t.last_sent = 0 \/ t.key \in overdue

\* two more retries are allowed
RetryAllowedLate(t) == t.retry_count < MAX_RETRIES + 2

\* transmission['retry_count'] < 3
RetryAllowed(t) == t.retry_count < MAX_RETRIES

\* the transmission_failed signal of an entry that exhausted its retries
FailedEvent(t) ==
    [modename |-> t.key[1], node_id |-> t.key[2], error |-> "Max retries exceeded",
     addr |-> t.dest_addr, seq |-> t.key[3], packet_num |-> t.key[4]]

\* The locked part of _check_retransmissions: one pass over
\* list(pending_transmissions.items()).  acc carries the table, the list
\* retransmit_keys, the liveness table and the two signals it may emit.
RECURSIVE ScanPending(_, _, _)
ScanPending(acc, items, overdue) ==
    IF items = <<>> THEN acc
    ELSE LET t == Head(items)
             next ==
               IF ~t.sent
               THEN [acc EXCEPT
                       !.keys = Append(@, t.key),
                       !.pending = DictPut(@, [t EXCEPT !.sent = TRUE, !.last_sent = 1])]
               ELSE IF TimedOut(t, overdue)
               THEN IF RetryAllowed(t)
                    THEN [acc EXCEPT !.keys = Append(@, t.key)]
                    ELSE LET probe == t.packet.packet_type = CHECK_PORT_PACKET
                         IN  [acc EXCEPT
                               !.targets = IF probe
                                           THEN UpdatePortStatus(@, t.dest_addr, FALSE)
                                           ELSE @,
                               !.status = IF probe
                                          THEN Emit(@, PortStatusEvent(acc.targets,
                                                                       t.dest_addr, FALSE))
                                          ELSE @,
                               !.failed = Emit(@, FailedEvent(t)),
                               !.pending = DictDel(@, t.key)]
               ELSE acc
         IN  ScanPending(next, Tail(items), overdue)

\* the keys of the entries that carry a real time stamp
StampedKeys(d) == {d[i].key : i \in {j \in 1..Len(d) : d[j].sent /\ d[j].last_sent # 0}}

\* _send_loop: "while self.recv_running" at the end of an iteration
LoopTop(e) == IF recv_running[e] THEN "get" ELSE "exited"

\* The mutexes the emitting thread holds at each emit of the source:
\* ack_received and transmission_failed inside "with self.lock";
\* port_status_changed inside "with self.port_check_lock" of
\* _update_port_status, whose callers hold self.lock; transmission_complete
\* in _assemble_data, called with self.lock held by _handle_header_packet and
\* without it by _handle_data_packet, and in _handle_full_packet without it.
HeldAtEmit(signal, type) ==
    CASE signal = "ack_received" -> {"lock"}
      [] signal = "transmission_failed" -> {"lock"}
      [] signal = "port_status_changed" -> {"lock", "port_check_lock"}
      [] OTHER -> IF type = HEADER_PACKET THEN {"lock"} ELSE {}

\* the emissions of a step of engine e, each with the mutexes held; type is
\* the kind of the packet being handled (-1 in the send thread)
Emitted(e, type) ==
    {[signal |-> x[1], held |-> HeldAtEmit(x[1], type)] :
        x \in {y \in {<<"ack_received", ack_received, ack_received'>>,
                      <<"transmission_failed", transmission_failed, transmission_failed'>>,
                      <<"port_status_changed", port_status_changed, port_status_changed'>>,
                      <<"transmission_complete", transmission_complete, transmission_complete'>>} :
                  y[2][e] # y[3][e]}}

\* _send_loop: the queue is empty (or a task was just registered) and
\* _check_retransmissions runs its locked pass
CheckRetransmissions(e, overdue) ==
    /\ \/ send_pc[e] = "check"
       \/ send_pc[e] = "get" /\ send_queue[e] = <<>>
    /\ ~lock_stuck[e]
    /\ overdue \subseteq StampedKeys(pending_transmissions[e])
    /\ LET acc == ScanPending([pending |-> pending_transmissions[e], keys |-> <<>>,
                               targets |-> port_check_targets[e],
                               status |-> port_status_changed[e],
                               failed |-> transmission_failed[e]],
                              pending_transmissions[e], overdue)
       IN  /\ pending_transmissions' = [pending_transmissions EXCEPT ![e] = acc.pending]
           /\ retransmit_keys' = [retransmit_keys EXCEPT ![e] = acc.keys]
           /\ port_check_targets' = [port_check_targets EXCEPT ![e] = acc.targets]
           /\ port_status_changed' = [port_status_changed EXCEPT ![e] = acc.status]
           /\ transmission_failed' = [transmission_failed EXCEPT ![e] = acc.failed]
           /\ send_pc' = [send_pc EXCEPT ![e] = IF acc.keys = <<>> THEN LoopTop(e) ELSE "resend"]
    /\ UNCHANGED <<send_queue, sequence_counter, pending_receptions, lock_stuck,
                   transmission_complete, ack_received, net, sent_log,
                   ack_replayed, calls, load, corrupted, codec, recv_running, client, server, threads,
                   arrived>>
    /\ emit_held' = [emit_held EXCEPT ![e] = @ \cup Emitted(e, -1)]

\* _check_retransmissions after the lock is released: the next key of
\* retransmit_keys is looked up (KeyError ends the send thread) and its
\* packet is written to the socket
Resend(e) ==
    /\ send_pc[e] = "resend"
    /\ recv_running[e]
    /\ LET key == Head(retransmit_keys[e])
           rest == Tail(retransmit_keys[e])
       IN  IF ~DictHas(pending_transmissions[e], key)
           THEN /\ send_pc' = [send_pc EXCEPT ![e] = "dead"]
                /\ retransmit_keys' = [retransmit_keys EXCEPT ![e] = <<>>]
                /\ UNCHANGED <<pending_transmissions, net>>
           ELSE LET t == DictGet(pending_transmissions[e], key)
                IN  /\ send_pc' = [send_pc EXCEPT ![e] = IF rest = <<>> THEN LoopTop(e) ELSE "resend"]
                    /\ retransmit_keys' = [retransmit_keys EXCEPT ![e] = rest]
                    /\ net' = net \cup {Datagram(e, t.dest_addr, build(t.packet))}
                    /\ pending_transmissions' =
                          [pending_transmissions EXCEPT ![e] =
                              DictPut(@, [t EXCEPT !.last_sent = 1,
                                                   !.retry_count = @ + 1,
                                                   !.transmissions = @ + 1,
                                                   !.attempts = @ + 1])]
    /\ UNCHANGED <<send_queue, sequence_counter, pending_receptions, port_check_targets,
                   lock_stuck, signal_vars, sent_log, ack_replayed, calls, load, corrupted, codec, recv_running, client, server, threads,
                   arrived>>

\* The same step when sock.sendto raises: the exception is caught and
\* logged, last_sent and retry_count keep their values.
ResendFail(e) ==
    /\ send_pc[e] = "resend"
    /\ LET key == Head(retransmit_keys[e])
           rest == Tail(retransmit_keys[e])
       IN  IF ~DictHas(pending_transmissions[e], key)
           THEN /\ send_pc' = [send_pc EXCEPT ![e] = "dead"]
                /\ retransmit_keys' = [retransmit_keys EXCEPT ![e] = <<>>]
                /\ UNCHANGED pending_transmissions
           ELSE LET t == DictGet(pending_transmissions[e], key)
                IN  /\ t.attempts < MaxAttempts
                    /\ send_pc' = [send_pc EXCEPT ![e] = IF rest = <<>> THEN LoopTop(e) ELSE "resend"]
                    /\ retransmit_keys' = [retransmit_keys EXCEPT ![e] = rest]
                    /\ pending_transmissions' =
                          [pending_transmissions EXCEPT ![e] =
                              DictPut(@, [t EXCEPT !.attempts = @ + 1])]
    /\ UNCHANGED <<send_queue, sequence_counter, pending_receptions, port_check_targets,
                   lock_stuck, signal_vars, net, sent_log, ack_replayed, calls, load,
                   corrupted, codec, recv_running, client, server, threads,
                   arrived>>

(***************************************************************************)
(* Receive pipeline: _recv_loop and its handlers.                          *)
(***************************************************************************)
\* the ACK _send_ack builds
ConfirmAck(p) ==
    LET a0 == [ACKPacket(p.modename, p.node_id) EXCEPT
                  !.packet_num = p.packet_num, !.sequence_num = p.sequence_num,
                  !.ack_status = ACK_CONFIRM]
    IN  [a0 EXCEPT !.checksum = calculate_checksum(a0)]

\* a reply to a probe that confirms instead of answering the probe
CheckPortAckConfirm(p) ==
    LET a0 == [ACKPacket(p.modename, p.node_id) EXCEPT
                  !.sequence_num = p.sequence_num, !.packet_num = p.packet_num,
                  !.ack_status = ACK_CONFIRM]
    IN  [a0 EXCEPT !.checksum = calculate_checksum(a0)]

\* the ACK _handle_check_port_packet builds
CheckPortAck(p) ==
    LET a0 == [ACKPacket(p.modename, p.node_id) EXCEPT
                  !.sequence_num = p.sequence_num, !.packet_num = p.packet_num,
                  !.ack_status = ACK_CHECKPORT]
    IN  [a0 EXCEPT !.checksum = calculate_checksum(a0)]

\* _handle_ack_packet: key of the PendingSend an ACK names
AckKey(p) == <<p.modename, p.node_id, p.sequence_num, p.packet_num>>

\* the ack_received signal
AckEvent(p, addr) ==
    [modename |-> p.modename, node_id |-> p.node_id, seq |-> p.sequence_num,
     addr |-> addr, packet_num |-> p.packet_num]

\* the transmission_complete signal (seq is kept to tell messages apart)
CompleteEvent(modename, node_id, data, addr, seq) ==
    [modename |-> modename, node_id |-> node_id, data |-> data, addr |-> addr, seq |-> seq]

\* recv_key of _handle_header_packet and _handle_data_packet
RecvKey(p, addr) == <<addr, p.modename, p.node_id, p.sequence_num>>

\* the fragments joined in descending order of packet_num
RECURSIVE AssembledDataDescending(_)
AssembledDataDescending(received) ==
    IF DOMAIN received = {} THEN <<>>
    ELSE LET k == CHOOSE x \in DOMAIN received : \A y \in DOMAIN received : x >= y
         IN  received[k] \o AssembledDataDescending(FunDel(received, k))

\* _assemble_data: sorted(received_packets.items()) joined
RECURSIVE AssembledData(_)
AssembledData(received) ==
    IF DOMAIN received = {} THEN <<>>
    ELSE LET k == CHOOSE x \in DOMAIN received : \A y \in DOMAIN received : x <= y
         IN  received[k] \o AssembledData(FunDel(received, k))

\* _handle_ack_packet
HandleAck(e, p, addr) ==
    LET key == AckKey(p)
        pend == pending_transmissions[e]
    IN  /\ IF DictHas(pend, key)
           THEN LET t == DictGet(pend, key)
                IN  CASE p.ack_status = ACK_CONFIRM ->
                           /\ pending_transmissions' =
                                 [pending_transmissions EXCEPT ![e] = DictDel(@, key)]
                           /\ ack_received' = [ack_received EXCEPT ![e] =
                                                  Emit(@, AckEvent(p, addr))]
                           /\ UNCHANGED <<port_check_targets, port_status_changed>>
                      [] p.ack_status = ACK_RETRANSMIT ->
                           /\ pending_transmissions' =
                                 [pending_transmissions EXCEPT ![e] =
                                     DictPut(@, [t EXCEPT !.retry_count = @ + 1,
                                                          !.last_sent = 0])]
                           /\ UNCHANGED <<ack_received, port_check_targets,
                                          port_status_changed>>
                      [] p.ack_status = ACK_CHECKPORT ->
                           /\ port_check_targets' = [port_check_targets EXCEPT ![e] =
                                                        UpdatePortStatus(@, addr, TRUE)]
                           /\ port_status_changed' =
                                 [port_status_changed EXCEPT ![e] =
                                     Emit(@, PortStatusEvent(port_check_targets[e], addr, TRUE))]
                           /\ pending_transmissions' =
                                 [pending_transmissions EXCEPT ![e] = DictDel(@, key)]
                           /\ UNCHANGED ack_received
                      [] OTHER ->
                           UNCHANGED <<pending_transmissions, ack_received,
                                       port_check_targets, port_status_changed>>
           ELSE UNCHANGED <<pending_transmissions, ack_received,
                            port_check_targets, port_status_changed>>
        /\ UNCHANGED <<pending_receptions, lock_stuck, transmission_complete, net>>

\* the late HEADER never triggers assembly
HeaderNeverCompletes(reception) == FALSE

\* _handle_header_packet, update path: all packets the HEADER announces are
\* already buffered
HeaderCompletes(reception) ==
    Cardinality(DOMAIN reception.received_packets) = reception.packet_count

\* _handle_header_packet.  When the HEADER completes a message whose DATA
\* packets are all buffered, _assemble_data is called with the lock held:
\* it emits the message and then blocks on the lock for good.
HandleHeader(e, p, addr) ==
    LET recv_key == RecvKey(p, addr)
        pr == pending_receptions[e]
    IN  /\ net' = net \cup {Datagram(e, addr, build(ConfirmAck(p)))}
        /\ IF recv_key \in DOMAIN pr
           THEN LET reception == [pr[recv_key] EXCEPT
                                    !.total_length = p.total_length,
                                    !.packet_count = p.packet_count,
                                    !.header_received = TRUE,
                                    !.last_received = 1]
                    assemble_data == HeaderCompletes(reception)
                    data == AssembledData(reception.received_packets)
                IN  /\ pending_receptions' =
                          [pending_receptions EXCEPT ![e] = FunPut(@, recv_key, reception)]
                    /\ IF assemble_data /\ Len(data) = reception.total_length
                       THEN /\ transmission_complete' =
                                  [transmission_complete EXCEPT ![e] =
                                      Emit(@, CompleteEvent(p.modename, p.node_id, data,
                                                            reception.source_addr,
                                                            p.sequence_num))]
                            /\ lock_stuck' = [lock_stuck EXCEPT ![e] = TRUE]
                       ELSE UNCHANGED <<transmission_complete, lock_stuck>>
           ELSE /\ pending_receptions' =
                      [pending_receptions EXCEPT ![e] =
                          FunPut(@, recv_key,
                                 [source_addr |-> addr, total_length |-> p.total_length,
                                  packet_count |-> p.packet_count,
                                  received_packets |-> <<>>, last_received |-> 1,
                                  header_received |-> TRUE])]
                /\ UNCHANGED <<transmission_complete, lock_stuck>>
        /\ UNCHANGED <<pending_transmissions, ack_received, transmission_failed,
                       port_check_targets, port_status_changed>>

\* _handle_data_packet
HandleData(e, p, addr) ==
    LET recv_key == RecvKey(p, addr)
        pr == pending_receptions[e]
    IN  /\ net' = net \cup {Datagram(e, addr, build(ConfirmAck(p)))}
        /\ IF recv_key \notin DOMAIN pr
           THEN /\ pending_receptions' =
                      [pending_receptions EXCEPT ![e] =
                          FunPut(@, recv_key,
                                 [source_addr |-> addr, total_length |-> 0,
                                  packet_count |-> 0,
                                  received_packets |-> (p.packet_num :> p.data),
                                  last_received |-> 1,
                                  header_received |-> FALSE])]
                /\ UNCHANGED transmission_complete
           ELSE LET reception == [pr[recv_key] EXCEPT
                                    !.received_packets = FunPut(@, p.packet_num, p.data),
                                    !.last_received = 1]
                    assemble_data ==
                       /\ reception.header_received
                       /\ Cardinality(DOMAIN reception.received_packets) = reception.packet_count
                    data == AssembledData(reception.received_packets)
                IN  IF assemble_data /\ Len(data) = reception.total_length
                    THEN /\ transmission_complete' =
                               [transmission_complete EXCEPT ![e] =
                                   Emit(@, CompleteEvent(p.modename, p.node_id, data,
                                                         reception.source_addr,
                                                         p.sequence_num))]
                         /\ pending_receptions' =
                               [pending_receptions EXCEPT ![e] = FunDel(@, recv_key)]
                    ELSE /\ pending_receptions' =
                               [pending_receptions EXCEPT ![e] = FunPut(@, recv_key, reception)]
                         /\ UNCHANGED transmission_complete
        /\ UNCHANGED <<pending_transmissions, ack_received, transmission_failed,
                       port_check_targets, port_status_changed, lock_stuck>>

\* _handle_full_packet
HandleFull(e, p, addr) ==
    /\ net' = net \cup {Datagram(e, addr, build(ConfirmAck(p)))}
    /\ transmission_complete' =
          [transmission_complete EXCEPT ![e] =
              Emit(@, CompleteEvent(p.modename, p.node_id, p.data, addr, p.sequence_num))]
    /\ UNCHANGED <<pending_transmissions, pending_receptions, ack_received,
                   transmission_failed, port_check_targets, port_status_changed, lock_stuck>>

\* _handle_check_port_packet
HandleCheckPort(e, p, addr) ==
    /\ net' = net \cup {Datagram(e, addr, build(CheckPortAck(p)))}
    /\ UNCHANGED <<pending_transmissions, pending_receptions, ack_received,
                   transmission_complete, transmission_failed, port_check_targets,
                   port_status_changed, lock_stuck>>

\* _recv_loop: one datagram is read from the socket, parsed and dispatched.
\* The channel keeps the datagram, so it may be delivered again.
Receive(e, d) ==
    /\ recv_running[e]
    /\ d \in net
    /\ d.dst = e
    /\ ~lock_stuck[e]
    /\ LET p == parse(d.bytes)
       IN  CASE p.packet_type = ACK_PACKET -> HandleAck(e, p, d.src)
             [] p.packet_type = HEADER_PACKET -> HandleHeader(e, p, d.src)
             [] p.packet_type = DATA_PACKET -> HandleData(e, p, d.src)
             [] p.packet_type = FULL_PACKET -> HandleFull(e, p, d.src)
             [] p.packet_type = CHECK_PORT_PACKET -> HandleCheckPort(e, p, d.src)
             [] OTHER -> UNCHANGED <<pending_transmissions, pending_receptions,
                                     ack_received, transmission_complete,
                                     port_check_targets, port_status_changed,
                                     lock_stuck, net>>
    /\ ack_replayed' =
          IF /\ parse(d.bytes).packet_type = ACK_PACKET
             /\ Count(ack_received[e], AckEvent(parse(d.bytes), d.src)) > 0
          THEN [ack_replayed EXCEPT ![e] = TRUE]
          ELSE ack_replayed
    /\ UNCHANGED <<send_queue, sequence_counter, send_pc, retransmit_keys,
                   transmission_failed, sent_log, calls, load, corrupted, codec, recv_running, client, server, threads>>
    /\ emit_held' = [emit_held EXCEPT ![e] = @ \cup Emitted(e, parse(d.bytes).packet_type)]


\* _recv_loop reading a datagram that the channel delivers once only
ReceiveOnce(e, d) ==
    /\ d \notin arrived
    /\ Receive(e, d)
    /\ arrived' = arrived \cup {d}

(***************************************************************************)
(* The channel may also corrupt a datagram (one byte of it).               *)
(***************************************************************************)
\* the byte offsets (1-based) the channel corrupts, in datagrams that carry
\* a body (FULL, DATA): the low byte of the checksum field and the last
\* byte of the body
CorruptOffsets(b) ==
    IF Len(b) >= UDP_HEADER_SIZE /\ b[1] \in {DATA_PACKET, FULL_PACKET}
                                /\ Len(b) > HeaderSize(b[1])
    THEN {4, Len(b)} ELSE {}

MutateByte(b, i) == [b EXCEPT ![i] = (@ + 1) % 256]

Corrupt(d, i) ==
    /\ d \in net
    /\ corrupted < MaxCorrupt
    /\ i \in CorruptOffsets(d.bytes)
    /\ net' = net \cup {[d EXCEPT !.bytes = MutateByte(d.bytes, i)]}
    /\ corrupted' = corrupted + 1
    /\ UNCHANGED <<engine_vars, signal_vars, sent_log, ack_replayed, calls, load, codec,
                   client, server, threads,
                   arrived>>

(***************************************************************************)
(* Codec round trip: build() followed by parse().                          *)
(***************************************************************************)
CodecIdle == [stage |-> "idle", p |-> NoPacket, wire |-> <<>>, out |-> NoPacket]

CodecNodeIds == {0, NodeId, 2147483647}
CodecSeqs == {SeqNum(0, 0), SeqNum(0, 1), SeqNum(1, 2), SeqNum(U16_MOD - 1, U16_MOD - 1)}

WithChecksum(p) == [p EXCEPT !.checksum = calculate_checksum(p)]

\* the well-formed packets of the five kinds
CodecPackets ==
    LET Base(type) ==
          {[Packet(type, a, m, n) EXCEPT !.sequence_num = s] :
              a \in AckStatuses, m \in ModuleNames, n \in CodecNodeIds, s \in CodecSeqs}
        Headers == {[b EXCEPT !.total_length = L, !.packet_count = PacketCount(L)] :
                      b \in Base(HEADER_PACKET), L \in {MAX_DATA_SIZE + 1, 300}}
        Datas == {[b EXCEPT !.packet_num = k, !.data = d] :
                      b \in Base(DATA_PACKET), k \in {1, 2}, d \in {<<255>>, PayloadOf(MAX_DATA_SIZE)}}
        Fulls == {[b EXCEPT !.total_length = Len(d), !.packet_count = 1, !.data = d] :
                      b \in Base(FULL_PACKET), d \in {<<255>>, PayloadOf(MAX_DATA_SIZE)}}
        Acks == {[b EXCEPT !.packet_num = k] : b \in Base(ACK_PACKET), k \in {0, 1, 2}}
        Probes == Base(CHECK_PORT_PACKET)
    IN  {WithChecksum(p) : p \in Headers \cup Datas \cup Fulls \cup Acks \cup Probes}

CodecBuild ==
    /\ codec.stage = "input"
    /\ codec' = [codec EXCEPT !.stage = "built", !.wire = build(codec.p)]
    /\ UNCHANGED <<engine_vars, signal_vars, net, sent_log, ack_replayed, calls, load, corrupted,
                   client, server, threads,
                   arrived>>

CodecParse ==
    /\ codec.stage = "built"
    /\ codec' = [codec EXCEPT !.stage = "parsed", !.out = parse(codec.wire)]
    /\ UNCHANGED <<engine_vars, signal_vars, net, sent_log, ack_replayed, calls, load, corrupted,
                   client, server, threads,
                   arrived>>

(***************************************************************************)
(* Client dispatcher: NetUDPQue of src/network_1/net_udp_que_client.py.    *)
(***************************************************************************)
\* the addresses a dispatcher deals with, and Python's None
DispAddrs == {"X", "Y"}
None == "None"

\* the dicts an application asks to send: json.dumps raises on the second
DictData == {[value |-> 1, serialisable |-> TRUE], [value |-> 2, serialisable |-> FALSE]}

\* json.dumps(data).encode('utf-8') of a one-entry dict {"v": value}
json_dumps(data) == <<123, 34, 118, 34, 58, 32, 48 + data.value, 125>>

\* dict.get(key, False) on a dict of booleans
GetOrFalse(d, key) == IF key \in DOMAIN d THEN d[key] ELSE FALSE

\* the cache read as online whatever it holds
PortStatusGetOnline(port_status, addr) == TRUE

\* self.port_status.get(addr, False)
PortStatusGet(port_status, addr) == GetOrFalse(port_status, addr)

\* a send request (the netsend signal) and its absence
Request(mode_name, data, node_id) == [mode_name |-> mode_name, data |-> data, node_id |-> node_id]
NoRequest == Request("", [value |-> 0, serialisable |-> TRUE], 0)

\* the job _queue_send_data puts on send_queue
SendJob(mode_name, data, dest_addr) ==
    [mode_name |-> mode_name, data |-> json_dumps(data), dest_addr |-> dest_addr]

\* NetUDPQue.__init__ (client); requests counts the send requests made,
\* request is the last of them, accepted lists the jobs put on send_queue,
\* transport lists the calls made to net_mgr, pool holds the UDPSendTasks
\* net_mgr.send_to has started on the thread pool and that have not run yet
ClientInit ==
    [dest_addr |-> None, port_status |-> <<>>, send_queue |-> <<>>,
     transport |-> <<>>, requests |-> 0, request |-> NoRequest,
     accepted |-> <<>>, pool |-> <<>>]

\* NetUDPQue._check_port_online (client)
check_port_online(c) ==
    IF c.dest_addr = None THEN c
    ELSE [c EXCEPT !.transport = Append(@, [call |-> "check_port", dest_addr |-> c.dest_addr])]

\* NetUDPQue.set_destination (client)
ClientSetDestination(addr) ==
    /\ Len(client.transport) < MaxTransportCalls
    /\ client' = check_port_online([client EXCEPT !.dest_addr = addr])
    /\ UNCHANGED <<engine_vars, signal_vars, net, sent_log, ack_replayed, calls, load,
                   corrupted, codec, arrived, server, threads>>

\* NetUDPQue._on_port_status_changed (client)
ClientOnPortStatusChanged(addr, online) ==
    /\ client' = [client EXCEPT !.port_status = FunPut(@, addr, online)]
    /\ UNCHANGED <<engine_vars, signal_vars, net, sent_log, ack_replayed, calls, load,
                   corrupted, codec, arrived, server, threads>>

\* NetUDPQue._handle_received_data (client): the peer becomes the destination
ClientHandleReceivedData(source_addr) ==
    /\ client' = [client EXCEPT !.dest_addr = source_addr]
    /\ UNCHANGED <<engine_vars, signal_vars, net, sent_log, ack_replayed, calls, load,
                   corrupted, codec, arrived, server, threads>>

\* NetUDPQue._queue_send_data (client)
ClientQueueSendData(mode_name, data) ==
    /\ client.requests < MaxRequests
    /\ LET c == [client EXCEPT !.requests = @ + 1, !.request = Request(mode_name, data, 0)]
       IN  client' =
              IF c.dest_addr = None THEN c
              ELSE IF ~PortStatusGet(c.port_status, c.dest_addr) THEN c
              ELSE IF ~data.serialisable THEN c
              ELSE [c EXCEPT !.send_queue = Append(@, SendJob(mode_name, data, c.dest_addr)),
                             !.accepted = Append(@, SendJob(mode_name, data, c.dest_addr))]
    /\ UNCHANGED <<engine_vars, signal_vars, net, sent_log, ack_replayed, calls, load,
                   corrupted, codec, arrived, server, threads>>

\* UDPSendTask(transmitter, modename, node_id, data, dest_addr)
UDPSendTask(job, node_id) == Task(job.mode_name, node_id, job.data, job.dest_addr)

\* NetUDPQue._send_worker (client): a job is taken and handed to
\* net_mgr.send_to, which starts a UDPSendTask on the thread pool
ClientSendWorker ==
    /\ client.send_queue # <<>>
    /\ Len(client.transport) < MaxTransportCalls
    /\ client' = [client EXCEPT
                     !.send_queue = Tail(@),
                     !.transport = Append(@, [call |-> "send_to",
                                               dest_addr |-> Head(client.send_queue).dest_addr]),
                     !.pool = Append(@, UDPSendTask(Head(client.send_queue), 0))]
    /\ UNCHANGED <<engine_vars, signal_vars, net, sent_log, ack_replayed, calls, load,
                   corrupted, codec, arrived, server, threads>>

\* s without its i-th element
RemoveAt(s, i) == SubSeq(s, 1, i - 1) \o SubSeq(s, i + 1, Len(s))

\* UDPSendTask.run on a thread of QThreadPool.globalInstance(): any started
\* task may be the next to call transmitter.send_to, which puts it on the
\* send queue of the engine e
PoolRun(e, i) ==
    /\ i \in 1..Len(client.pool)
    /\ send_queue' = [send_queue EXCEPT ![e] = Append(@, client.pool[i])]
    /\ client' = [client EXCEPT !.pool = RemoveAt(@, i)]
    /\ UNCHANGED <<sequence_counter, pending_transmissions, pending_receptions,
                   port_check_targets, send_pc, retransmit_keys, lock_stuck, recv_running,
                   signal_vars, net, sent_log, ack_replayed, calls, load,
                   corrupted, codec, arrived, server, threads>>

(***************************************************************************)
(* Server dispatcher: NetUDPQue of src/network_1/net_udp_que_server.py.    *)
(***************************************************************************)
\* the node ids of the server's peers
ServerNodeIds == {NodeId}

\* dict.get(key) with Python's None for a missing key
GetOrNone(d, key) == IF key \in DOMAIN d THEN d[key] ELSE None

\* NetUDPQue.__init__ (server).  Kept beside the dispatcher's fields: now is
\* time.time(), ticks the advances of the clock, inbound the packets that
\* arrived, requested_at the time of the last send request, last_source the source address of the latest valid packet of
\* each node id, last_inbound the time of the latest packet of each address.
ServerInit ==
    [dest_addr |-> None, node_id_to_addr |-> <<>>, port_status |-> <<>>,
     source_port_last_active |-> <<>>, send_queue |-> <<>>, transport |-> <<>>,
     requests |-> 0, request |-> NoRequest, requested_at |-> 0,
     now |-> 0, ticks |-> 0, inbound |-> 0, last_source |-> <<>>, last_inbound |-> <<>>]

\* NetUDPQue._handle_received_data (server): the slot of dataReceived
handle_received_data(sv, node_id, source_addr) ==
    [sv EXCEPT !.node_id_to_addr = FunPut(@, node_id, source_addr)]

\* NetUDPQue._on_port_check_received (server): the slot of portCheckReceived
on_port_check_received(sv, addr, online) ==
    [sv EXCEPT !.port_status = FunPut(@, addr, online),
               !.source_port_last_active = FunPut(@, addr, sv.now)]

\* The signals the network manager emits for an inbound packet: dataReceived
\* for a FULL packet and for the HEADER or DATA packet that completes a
\* message, portCheckReceived(addr, True) for a PROBE, none otherwise.
ManagerSignals(sv, type, completes, node_id, addr) ==
    CASE type = CHECK_PORT_PACKET -> on_port_check_received(sv, addr, TRUE)
      [] type = FULL_PACKET \/ completes -> handle_received_data(sv, node_id, addr)
      [] OTHER -> sv

\* the kinds of packet a peer sends to the server
InboundTypes == {FULL_PACKET, HEADER_PACKET, DATA_PACKET, CHECK_PORT_PACKET}

\* a valid packet of node_id arrives from addr
ServerInbound(type, completes, node_id, addr) ==
    /\ server.inbound < MaxInbound
    /\ completes => type \in {HEADER_PACKET, DATA_PACKET}
    /\ server' = ManagerSignals([server EXCEPT !.inbound = @ + 1,
                                               !.last_source = FunPut(@, node_id, addr),
                                               !.last_inbound = FunPut(@, addr, server.now)],
                                type, completes, node_id, addr)
    /\ UNCHANGED <<engine_vars, signal_vars, net, sent_log, ack_replayed, calls, load,
                   corrupted, codec, arrived, client, threads>>

\* the addresses a pass of the idle sweeper finds stale
StaleAddrs(sv) ==
    {addr \in DOMAIN sv.source_port_last_active :
        sv.now - sv.source_port_last_active[addr] > OFFLINE_THRESHOLD}

\* NetUDPQue._source_port_scan_worker: one pass
ServerScan ==
    /\ server' = [server EXCEPT !.port_status =
                     [addr \in DOMAIN @ \cup StaleAddrs(server) |->
                         IF addr \in StaleAddrs(server) THEN FALSE ELSE @[addr]]]
    /\ UNCHANGED <<engine_vars, signal_vars, net, sent_log, ack_replayed, calls, load,
                   corrupted, codec, arrived, client, threads>>

\* time passes
ServerTick(d) ==
    /\ server.ticks < MaxTicks
    /\ server' = [server EXCEPT !.now = @ + d, !.ticks = @ + 1]
    /\ UNCHANGED <<engine_vars, signal_vars, net, sent_log, ack_replayed, calls, load,
                   corrupted, codec, arrived, client, threads>>

\* every address taken for online
ServerPortAlwaysOnline(sv, addr) == TRUE

\* NetUDPQue._queue_send_data (server): self.port_status.get(self.dest_addr, False)
ServerPortOnline(sv, addr) == PortStatusGet(sv.port_status, addr)

\* NetUDPQue._queue_send_data (server)
ServerQueueSendData(mode_name, data, node_id) ==
    /\ server.requests < MaxRequests
    /\ LET sv == [server EXCEPT !.requests = @ + 1,
                                !.request = Request(mode_name, data, node_id),
                                !.requested_at = server.now,
                                !.dest_addr = GetOrNone(server.node_id_to_addr, node_id)]
       IN  server' =
              IF sv.dest_addr = None THEN sv
              ELSE IF ~ServerPortOnline(sv, sv.dest_addr) THEN sv
              ELSE IF ~data.serialisable THEN sv
              ELSE [sv EXCEPT !.send_queue = Append(@, SendJob(mode_name, data, sv.dest_addr))]
    /\ UNCHANGED <<engine_vars, signal_vars, net, sent_log, ack_replayed, calls, load,
                   corrupted, codec, arrived, client, threads>>

\* NetUDPQue._send_worker (server)
ServerSendWorker ==
    /\ server.send_queue # <<>>
    /\ Len(server.transport) < MaxTransportCalls
    /\ server' = [server EXCEPT
                     !.send_queue = Tail(@),
                     !.transport = Append(@, [call |-> "send_to",
                                               dest_addr |-> Head(server.send_queue).dest_addr])]
    /\ UNCHANGED <<engine_vars, signal_vars, net, sent_log, ack_replayed, calls, load,
                   corrupted, codec, arrived, client, threads>>

(***************************************************************************)
(* Specifications.                                                         *)
(***************************************************************************)
\* the state of the engines after UDPTransmitter.__init__
InitCounter ==
    sequence_counter \in {[e \in Engines |-> IF e \in Callers THEN c ELSE SeqNum(0, 1)] :
                            c \in InitCounters}

(***************************************************************************)
(* Mutexes: self.lock and self.port_check_lock, both threading.Lock().     *)
(***************************************************************************)
\* the threads of one engine: _recv_loop, _send_loop and the application
Threads == {"recv", "send", "app"}
Mutexes == {"lock", "port_check_lock"}

Acquire(m) == <<"acquire", m>>
Release(m) == <<"release", m>>

\* check_port with its registration made inside the liveness mutex
CheckPortNested ==
    <<Acquire("lock"), Release("lock"),
      Acquire("port_check_lock"), Acquire("lock"), Release("lock"),
      Release("port_check_lock")>>

\* check_port: the sequence number, the liveness entry, then
\* _queue_for_transmission
CheckPortLocks ==
    <<Acquire("lock"), Release("lock"),
      Acquire("port_check_lock"), Release("port_check_lock"),
      Acquire("lock"), Release("lock")>>

\* the 'with' blocks a routine enters and leaves, in program order
LockProgram(routine) ==
    CASE routine = "_handle_ack_packet" ->
             <<Acquire("lock"), Release("lock")>>
      [] routine = "_handle_ack_packet:CHECKPORT" ->
             <<Acquire("lock"), Acquire("port_check_lock"),
               Release("port_check_lock"), Release("lock")>>
      [] routine = "_handle_header_packet" ->
             <<Acquire("lock"), Release("lock")>>
      [] routine = "_handle_header_packet:_assemble_data" ->
             <<Acquire("lock"), Acquire("lock"), Release("lock"), Release("lock")>>
      [] routine = "_handle_data_packet" ->
             <<Acquire("lock"), Release("lock")>>
      [] routine = "_handle_data_packet:_assemble_data" ->
             <<Acquire("lock"), Release("lock"), Acquire("lock"), Release("lock")>>
      [] routine = "_send_data" ->
             <<Acquire("lock"), Release("lock"), Acquire("lock"), Release("lock")>>
      [] routine = "_check_retransmissions" ->
             <<Acquire("lock"), Release("lock")>>
      [] routine = "_check_retransmissions:_update_port_status" ->
             <<Acquire("lock"), Acquire("port_check_lock"),
               Release("port_check_lock"), Release("lock")>>
      [] routine = "check_port" -> CheckPortLocks
      [] routine = "is_port_online" ->
             <<Acquire("port_check_lock"), Release("port_check_lock")>>
      [] OTHER -> <<>>

\* the routines each thread runs
Routines(t) ==
    CASE t = "recv" -> {"_handle_ack_packet", "_handle_ack_packet:CHECKPORT",
                        "_handle_header_packet", "_handle_header_packet:_assemble_data",
                        "_handle_data_packet", "_handle_data_packet:_assemble_data"}
      [] t = "send" -> {"_send_data", "_check_retransmissions",
                        "_check_retransmissions:_update_port_status"}
      [] OTHER -> {"check_port", "is_port_online"}

Idle == [routine |-> "", pos |-> 1, held |-> <<>>]
ThreadsInit == [t \in Threads |-> Idle]

\* the mutexes some thread holds
HeldBy(t) == {threads[t].held[i] : i \in 1..Len(threads[t].held)}
HeldMutexes == UNION {HeldBy(t) : t \in Threads}

\* the event thread t is at, <<>> when it runs no routine
NextEvent(t) ==
    LET prog == LockProgram(threads[t].routine)
    IN  IF threads[t].pos <= Len(prog) THEN prog[threads[t].pos] ELSE <<>>

\* a thread enters a routine
Enter(t, routine) ==
    /\ threads[t].routine = ""
    /\ routine \in Routines(t)
    /\ threads' = [threads EXCEPT ![t] = [Idle EXCEPT !.routine = routine]]
    /\ UNCHANGED <<engine_vars, signal_vars, net, sent_log, ack_replayed, calls, load,
                   corrupted, codec, arrived, client, server>>

\* 'with m:' is entered: threading.Lock blocks while any thread, the
\* requesting one included, holds m
AcquireStep(t) ==
    /\ NextEvent(t) # <<>>
    /\ NextEvent(t)[1] = "acquire"
    /\ NextEvent(t)[2] \notin HeldMutexes
    /\ threads' = [threads EXCEPT ![t].held = Append(@, NextEvent(t)[2]),
                                  ![t].pos = @ + 1]
    /\ UNCHANGED <<engine_vars, signal_vars, net, sent_log, ack_replayed, calls, load,
                   corrupted, codec, arrived, client, server>>

\* 'with m:' is left; the routine returns after its last block
ReleaseStep(t) ==
    /\ NextEvent(t) # <<>>
    /\ NextEvent(t)[1] = "release"
    /\ LET m == NextEvent(t)[2]
           held == SelectSeq(threads[t].held, LAMBDA x : x # m)
       IN  threads' = [threads EXCEPT ![t] =
                          IF threads[t].pos = Len(LockProgram(threads[t].routine))
                          THEN Idle
                          ELSE [@ EXCEPT !.held = held, !.pos = @ + 1]]
    /\ UNCHANGED <<engine_vars, signal_vars, net, sent_log, ack_replayed, calls, load,
                   corrupted, codec, arrived, client, server>>

InitEngine ==
    /\ pending_transmissions = [e \in Engines |-> <<>>]
    /\ pending_receptions = [e \in Engines |-> <<>>]
    /\ port_check_targets = [e \in Engines |-> <<>>]
    /\ send_pc = [e \in Engines |-> "get"]
    /\ retransmit_keys = [e \in Engines |-> <<>>]
    /\ lock_stuck = [e \in Engines |-> FALSE]
    /\ transmission_complete = [e \in Engines |-> <<>>]
    /\ transmission_failed = [e \in Engines |-> <<>>]
    /\ ack_received = [e \in Engines |-> <<>>]
    /\ port_status_changed = [e \in Engines |-> <<>>]
    /\ sent_log = {}
    /\ ack_replayed = [e \in Engines |-> FALSE]
    /\ corrupted = 0
    /\ arrived = {}
    /\ emit_held = [e \in Engines |-> {}]
    /\ recv_running = [e \in Engines |-> TRUE]
    /\ client = ClientInit
    /\ server = ServerInit
    /\ threads = ThreadsInit

InitTables ==
    /\ InitEngine
    /\ net = {}

Init ==
    /\ send_queue = [e \in Engines |-> <<>>]
    /\ InitCounter
    /\ InitTables
    /\ calls = 0
    /\ load = 0
    /\ codec = CodecIdle

Tasks(e) == {Task("node", NodeId, d, Peer(e)) : d \in Payloads}

Next ==
    \/ \E e \in Engines : \E task \in Tasks(e) : SendTo(e, task)
    \/ \E e \in Engines : CheckPort(e, Peer(e), "node", 0)
    \/ \E e \in Engines : SendTask(e)
    \/ \E e \in Engines :
          \E overdue \in SUBSET StampedKeys(pending_transmissions[e]) :
             CheckRetransmissions(e, overdue)
    \/ \E e \in Engines : Resend(e)
    \/ \E e \in Engines : \E d \in net : Receive(e, d) /\ UNCHANGED arrived

\* the channel loses, duplicates and reorders datagrams
Spec == Init /\ [][Next]_vars

CorruptStep == \E d \in net : \E i \in CorruptOffsets(d.bytes) : Corrupt(d, i)

NextCorrupt == Next \/ CorruptStep

\* under the corrupting channel the application has one call left to make,
\* for a single packet (a payload that fits a FULL packet, or a probe)
InitCorrupt ==
    /\ send_queue = [e \in Engines |-> <<>>]
    /\ InitCounter
    /\ InitTables
    /\ calls = MaxCalls - 1
    /\ load = MaxLoad - 1
    /\ codec = CodecIdle

\* the channel also corrupts datagrams
SpecCorrupt == InitCorrupt /\ [][NextCorrupt]_vars

InitCodec ==
    /\ send_queue = [e \in Engines |-> <<>>]
    /\ sequence_counter = [e \in Engines |-> SeqNum(0, 1)]
    /\ InitTables
    /\ calls = 0
    /\ load = 0
    /\ codec \in {[stage |-> "input", p |-> p, wire |-> <<>>, out |-> NoPacket] :
                    p \in CodecPackets}

NextCodec == CodecBuild \/ CodecParse

\* every well-formed packet is built and parsed back
SpecCodec == InitCodec /\ [][NextCodec]_vars

\* The send pipeline alone: a task of any length is on the queue of a
\* caller and _send_data registers it.
SendSpecLens == 1..(3 * MAX_DATA_SIZE + 1)
SendSpecTasks(e) ==
    {Task(m, n, PayloadOf(L), Peer(e)) : m \in ModuleNames, n \in {0, NodeId}, L \in SendSpecLens}

InitSend ==
    /\ send_queue \in {[e \in Engines |-> IF e = c THEN <<task>> ELSE <<>>] :
                         c \in Callers, task \in UNION {SendSpecTasks(x) : x \in Callers}}
    /\ InitCounter
    /\ InitTables
    /\ calls = 0
    /\ load = 0
    /\ codec = CodecIdle

NextSend == \E e \in Engines : SendTask(e)

SpecSend == InitSend /\ [][NextSend]_vars

\* The engines' threads keep running and the clock keeps advancing: a task
\* on the queue is taken, a selected key is transmitted, and a pass of
\* _check_retransmissions eventually finds every stamped entry overdue.
Fairness ==
    \A e \in Engines :
        /\ WF_vars(SendTask(e))
        /\ WF_vars(Resend(e))
        /\ WF_vars(CheckRetransmissions(e, StampedKeys(pending_transmissions[e])))

FairSpec == Init /\ [][Next]_vars /\ Fairness

\* The receive pipeline alone: the datagrams of one message from A are in
\* flight to B and the channel delivers each datagram at most once, in any
\* order.
RecvSeq == SeqNum(0, 1)
RecvTask == Task("plugin", NodeId, PayloadOf(2 * MAX_DATA_SIZE + 1), "B")
RecvFullTask == Task("plugin", NodeId, PayloadOf(MAX_DATA_SIZE), "B")

\* the datagrams A's send thread writes for a task
MessageDatagrams(task, seq) ==
    {Datagram("A", task.dest_addr, build(SendEntries(task, seq)[i].packet)) :
        i \in 1..Len(SendEntries(task, seq))}

\* byte offsets (1-based): low byte of model_id, low byte of total_length
ModelIdOffset == UDP_HEADER_SIZE - 4
TotalLengthOffset == UDP_HEADER_SIZE + 4

\* a message whose packets all name a module id that is not registered
UnknownModule(ds) == {[d EXCEPT !.bytes = MutateByte(d.bytes, ModelIdOffset)] : d \in ds}

\* a message whose HEADER announces one byte more than its DATA packets carry
WrongLength(ds) ==
    {IF d.bytes[1] = HEADER_PACKET
     THEN [d EXCEPT !.bytes = MutateByte(d.bytes, TotalLengthOffset)] ELSE d : d \in ds}

\* a probe of A (check_port with its default arguments) in flight to B
ProbeSeq == NextSequence(RecvSeq)
ProbeDatagrams ==
    LET p0 == [CheckPortPacket("node", 0) EXCEPT !.sequence_num = ProbeSeq]
    IN  {Datagram("A", "B", build([p0 EXCEPT !.checksum = calculate_checksum(p0)]))}

RecvScenarios ==
    {MessageDatagrams(RecvTask, RecvSeq),
     MessageDatagrams(RecvTask, RecvSeq) \cup ProbeDatagrams,
     WrongLength(MessageDatagrams(RecvTask, RecvSeq)),
     UnknownModule(MessageDatagrams(RecvTask, RecvSeq)),
     UnknownModule(MessageDatagrams(RecvFullTask, RecvSeq))}

InitRecv ==
    /\ send_queue = [e \in Engines |-> <<>>]
    /\ sequence_counter = [e \in Engines |-> RecvSeq]
    /\ InitEngine
    /\ net \in RecvScenarios
    /\ calls = 0
    /\ load = 0
    /\ codec = CodecIdle

NextRecv == \E e \in Engines : \E d \in net : ReceiveOnce(e, d)

SpecRecv == InitRecv /\ [][NextRecv]_vars

\* The socket is bound with no peer filter: sock.recvfrom hands over the
\* datagrams of any host.  A host that is not the destination of the
\* PendingSend t of e sends e an ACK carrying t's key.
Outsider == "C"
Forge(e, t) ==
    /\ t.dest_addr # Outsider
    /\ net' = net \cup {Datagram(Outsider, e, build(ConfirmAck(t.packet)))}
    /\ UNCHANGED <<engine_vars, signal_vars, sent_log, ack_replayed, calls, load,
                   corrupted, codec, arrived, client, server, threads>>

ForgeStep ==
    \E e \in Engines : \E i \in 1..Len(pending_transmissions[e]) :
        Forge(e, pending_transmissions[e][i])

NextForge == Next \/ ForgeStep

\* the application has one call left to make, for a single packet
SpecForge == InitCorrupt /\ [][NextForge]_vars

\* The socket of the callers is broken: every sock.sendto raises.
NextIO ==
    \/ \E e \in Engines : \E task \in Tasks(e) : SendTo(e, task)
    \/ \E e \in Engines : CheckPort(e, Peer(e), "node", 0)
    \/ \E e \in Engines : SendTask(e)
    \/ \E e \in Engines :
          \E overdue \in SUBSET StampedKeys(pending_transmissions[e]) :
             CheckRetransmissions(e, overdue)
    \/ \E e \in Engines : ResendFail(e)

SpecIO == Init /\ [][NextIO]_vars

\* UDPTransmitter.close: the run flag is cleared and the socket closed.  The
\* send thread has read the flag already when it waits in queue.get (seen
\* = FALSE: it runs one more iteration) or reads it next (seen = TRUE).
Close(e, seen) ==
    /\ recv_running[e]
    /\ recv_running' = [recv_running EXCEPT ![e] = FALSE]
    /\ send_pc' = [send_pc EXCEPT ![e] = IF @ = "get" /\ seen THEN "exited" ELSE @]
    /\ UNCHANGED <<send_queue, sequence_counter, pending_transmissions, pending_receptions,
                   port_check_targets, retransmit_keys, lock_stuck, signal_vars, net,
                   sent_log, ack_replayed, calls, load, corrupted, codec, arrived,
                   client, server, threads>>

\* the transmit loop of _check_retransmissions on the closed socket:
\* sock.sendto raises and the exception is logged
ResendClosed(e) == ~recv_running[e] /\ ResendFail(e)

\* The callers' engine with close(): the application sends and probes, the
\* send thread runs, and the application closes the engine at any moment.
NextClose ==
    \/ \E e \in Engines : \E task \in Tasks(e) : SendTo(e, task)
    \/ \E e \in Engines : CheckPort(e, Peer(e), "node", 0)
    \/ \E e \in Engines : SendTask(e)
    \/ \E e \in Engines :
          \E overdue \in SUBSET StampedKeys(pending_transmissions[e]) :
             CheckRetransmissions(e, overdue)
    \/ \E e \in Engines : Resend(e)
    \/ \E e \in Engines : ResendClosed(e)
    \/ \E e \in Callers : \E seen \in BOOLEAN : Close(e, seen)

SpecClose == Init /\ [][NextClose]_vars

\* The client dispatcher alone: the application sets destinations and asks
\* to send, the network manager reports port states and deliveries.
NextClient ==
    \/ \E addr \in DispAddrs \cup {None} : ClientSetDestination(addr)
    \/ \E addr \in DispAddrs : \E online \in BOOLEAN : ClientOnPortStatusChanged(addr, online)
    \/ \E addr \in DispAddrs : ClientHandleReceivedData(addr)
    \/ \E m \in ModuleNames : \E data \in DictData : ClientQueueSendData(m, data)
    \/ ClientSendWorker

SpecClient == Init /\ [][NextClient]_vars

\* The hand-off from the client dispatcher to the engine A it sends
\* through: requests are accepted, the worker hands the jobs to net_mgr, the
\* pool runs them, and A's send thread registers and transmits them.
NextHandoff ==
    \/ \E addr \in DispAddrs : ClientHandleReceivedData(addr)
    \/ \E addr \in DispAddrs : ClientOnPortStatusChanged(addr, TRUE)
    \/ \E m \in ModuleNames : \E data \in DictData : ClientQueueSendData(m, data)
    \/ ClientSendWorker
    \/ \E i \in 1..MaxRequests : PoolRun("A", i)
    \/ SendTask("A")
    \/ CheckRetransmissions("A", {})
    \/ Resend("A")

SpecHandoff == Init /\ [][NextHandoff]_vars

\* The mutexes alone: the three threads of one engine run their routines.
NextLocks ==
    \/ \E t \in Threads : \E routine \in Routines(t) : Enter(t, routine)
    \/ \E t \in Threads : AcquireStep(t)
    \/ \E t \in Threads : ReleaseStep(t)

SpecLocks == Init /\ [][NextLocks]_vars

\* The server dispatcher alone: packets arrive from the peers, time passes,
\* the idle sweeper runs, and the application asks to send.
NextServer ==
    \/ \E type \in InboundTypes : \E completes \in BOOLEAN :
          \E node_id \in ServerNodeIds : \E addr \in DispAddrs :
             ServerInbound(type, completes, node_id, addr)
    \/ ServerScan
    \/ \E d \in {1, OFFLINE_THRESHOLD} : ServerTick(d)
    \/ \E m \in ModuleNames : \E data \in DictData : \E node_id \in ServerNodeIds :
          ServerQueueSendData(m, data, node_id)
    \/ ServerSendWorker

SpecServer == Init /\ [][NextServer]_vars

\* The application names a module that is not in MODENAME_ID_MAP: the names
\* src/network_1/udp_client.py passes to send_to are of this kind.  What B
\* reads from such a send is an empty datagram, which parse() rejects.
UnknownName == "test"
UnknownTasks(e) == {Task(UnknownName, NodeId, d, Peer(e)) : d \in Payloads}

NextUnknown ==
    \/ \E e \in Engines : \E task \in UnknownTasks(e) : SendTo(e, task)
    \/ \E e \in Engines : CheckPort(e, Peer(e), UnknownName, 0)
    \/ \E e \in Engines : SendTask(e)
    \/ \E e \in Engines :
          \E overdue \in SUBSET StampedKeys(pending_transmissions[e]) :
             CheckRetransmissions(e, overdue)
    \/ \E e \in Engines : Resend(e)

SpecUnknown == Init /\ [][NextUnknown]_vars

(***************************************************************************)
(* Properties.                                                             *)
(***************************************************************************)
\* the PendingSends registered for message m, as a set
EntriesOf(m) ==
    LET d == pending_transmissions[m.src]
    IN  {d[i] : i \in {j \in 1..Len(d) : /\ d[j].key[1] = m.modename
                                         /\ d[j].key[2] = m.node_id
                                         /\ d[j].key[3] = m.seq}}

\* the least n with n * MAX_DATA_SIZE >= L
CeilDiv(L) == CHOOSE n \in 0..L : n * MAX_DATA_SIZE >= L /\ (n - 1) * MAX_DATA_SIZE < L

\* the bodies of the DATA entries i..n of a set of entries, joined
RECURSIVE JoinData(_, _, _)
JoinData(ents, i, n) ==
    IF i > n THEN <<>>
    ELSE LET t == CHOOSE x \in ents : x.packet.packet_type = DATA_PACKET
                                      /\ x.packet.packet_num = i
         IN  t.packet.data \o JoinData(ents, i + 1, n)

\* C2: for every well-formed packet p of the five kinds, parse(build(p)) has
\* the kind, ack_status, checksum, module, node_id, sequence and
\* fragment_index of p and, where the kind has them, its total_length,
\* fragment_count and payload.
C2_CodecRoundTrip ==
    codec.stage = "parsed" =>
        LET p == codec.p
            q == codec.out
        IN  /\ q.packet_type = p.packet_type
            /\ q.ack_status = p.ack_status
            /\ q.checksum = p.checksum
            /\ q.modename = p.modename
            /\ q.node_id = p.node_id
            /\ q.sequence_num = p.sequence_num
            /\ q.packet_num = p.packet_num
            /\ p.packet_type \in {HEADER_PACKET, FULL_PACKET} =>
                  q.total_length = p.total_length /\ q.packet_count = p.packet_count
            /\ p.packet_type \in {DATA_PACKET, FULL_PACKET} => q.data = p.data

\* the checksum field of a datagram equals the sum of its other bytes
WireChecksumOK(b) ==
    Len(b) >= UDP_HEADER_SIZE =>
        Unpack(b, 2, 2) = (SumBytes(b) - b[3] - b[4]) % CHECKSUM_MOD

\* C3: a received datagram whose checksum field differs from the checksum
\* computed over its header and payload is discarded: no ACK is sent, the
\* tables and the liveness state do not change and nothing is delivered.
C3_BadChecksumDiscarded ==
    [][\A e \in Engines : \A d \in net :
          (Receive(e, d) /\ ~WireChecksumOK(d.bytes)) =>
              UNCHANGED <<pending_transmissions, pending_receptions, port_check_targets,
                          signal_vars, net>>]_vars

\* C5: a payload longer than MAX_DATA_SIZE is registered as one HEADER
\* (fragment_index 0, total_length L, fragment_count ceil(L / MAX_DATA_SIZE))
\* and fragment_count DATA packets with indices 1..fragment_count, all with
\* the message's sequence number, whose bodies joined in ascending index
\* order are the payload.
C5_FragmentCoverage ==
    \A m \in sent_log :
        Len(m.data) > MAX_DATA_SIZE =>
            LET L == Len(m.data)
                n == CeilDiv(L)
                ents == EntriesOf(m)
                headers == {t \in ents : t.packet.packet_type = HEADER_PACKET}
                datas == {t \in ents : t.packet.packet_type = DATA_PACKET}
            IN  /\ ents = headers \cup datas
                /\ Cardinality(headers) = 1
                /\ \A h \in headers : /\ h.packet.packet_num = 0
                                      /\ h.packet.total_length = L
                                      /\ h.packet.packet_count = n
                /\ Cardinality(datas) = n
                /\ {t.packet.packet_num : t \in datas} = 1..n
                /\ \A t \in ents : /\ t.packet.sequence_num = m.seq
                                   /\ t.key[4] = t.packet.packet_num
                /\ JoinData(ents, 1, n) = m.data

C5_Witness ==
    \E m \in sent_log :
        /\ Len(m.data) = 2 * MAX_DATA_SIZE + 1
        /\ Cardinality(EntriesOf(m)) = 4

\* C6: a payload of at most MAX_DATA_SIZE bytes (MAX_DATA_SIZE included) is
\* registered as exactly one FULL packet with fragment_index 0; a payload of
\* MAX_DATA_SIZE + 1 bytes as one HEADER and two DATA packets of
\* MAX_DATA_SIZE bytes and 1 byte.
C6_KindBoundary ==
    \A m \in sent_log :
        LET ents == EntriesOf(m)
            datas == {t \in ents : t.packet.packet_type = DATA_PACKET}
        IN  /\ Len(m.data) <= MAX_DATA_SIZE =>
                  /\ Cardinality(ents) = 1
                  /\ \A t \in ents : /\ t.packet.packet_type = FULL_PACKET
                                     /\ t.packet.packet_num = 0
                                     /\ t.key[4] = 0
                                     /\ t.packet.data = m.data
            /\ Len(m.data) = MAX_DATA_SIZE + 1 =>
                  /\ Cardinality(ents) = 3
                  /\ Cardinality({t \in ents : t.packet.packet_type = HEADER_PACKET}) = 1
                  /\ Cardinality(datas) = 2
                  /\ \E t \in datas : t.packet.packet_num = 1
                                      /\ Len(t.packet.data) = MAX_DATA_SIZE
                  /\ \E t \in datas : t.packet.packet_num = 2 /\ Len(t.packet.data) = 1

C6_Witness ==
    \E m \in sent_log :
        /\ Len(m.data) = MAX_DATA_SIZE
        /\ \E t \in EntriesOf(m) : t.packet.packet_type = FULL_PACKET

\* the fragment indices of the PendingSends of message m
FragmentIndices(m) ==
    IF Len(m.data) <= MAX_DATA_SIZE THEN {0} ELSE 0..CeilDiv(Len(m.data))

\* every PendingSend of m was removed by a CONFIRM ACK
AllConfirmed(m) ==
    \A k \in FragmentIndices(m) :
        \E ev \in DOMAIN ack_received[m.src] :
            /\ ev.modename = m.modename /\ ev.node_id = m.node_id
            /\ ev.seq = m.seq /\ ev.packet_num = k

\* the DeliveryComplete events the destination emitted for m
Completions(m) ==
    {ev \in DOMAIN transmission_complete[m.dest_addr] :
        /\ ev.modename = m.modename /\ ev.node_id = m.node_id
        /\ ev.seq = m.seq /\ ev.addr = m.src}

\* C1: over a channel that loses, duplicates and reorders datagrams, a
\* message whose PendingSends were all removed by CONFIRM ACKs has been
\* delivered at its destination at least once, and every DeliveryComplete
\* for it carries exactly the payload passed to send.
C1_AtLeastOnceIntegrity ==
    \A m \in sent_log :
        /\ \A ev \in Completions(m) : ev.data = m.data
        /\ AllConfirmed(m) => Completions(m) # {}

C1_Witness ==
    \E m \in sent_log :
        /\ Len(m.data) > MAX_DATA_SIZE
        /\ AllConfirmed(m)
        /\ \E ev \in Completions(m) : ev.data = m.data

IsU32(s) == s[1] \in 0..(U16_MOD - 1) /\ s[2] \in 0..(U16_MOD - 1)

\* b - a = 1 (mod 2^32) for sequence numbers held as 16-bit halves
SeqDiffIsOne(a, b) ==
    \/ b[1] = a[1] /\ b[2] - a[2] = 1
    \/ a[2] = U16_MOD - 1 /\ b[2] = 0 /\ (b[1] - a[1]) % U16_MOD = 1

IsAckDatagram(b) == Len(b) >= UDP_HEADER_SIZE + 8 /\ b[1] = ACK_PACKET

\* C7: a CONFIRM ACK whose (module, node_id, sequence, fragment_index) is
\* the key of a PendingSend removes exactly that entry, emits AckObserved
\* for it and leaves every other PendingSend unchanged; an ACK that matches
\* no entry changes nothing in the table and emits no event.
C7_AckMatching ==
    [][\A e \in Engines : \A d \in net :
          (Receive(e, d) /\ IsAckDatagram(d.bytes)) =>
              LET p == parse(d.bytes)
                  key == <<p.modename, p.node_id, p.sequence_num, p.packet_num>>
                  old == pending_transmissions[e]
                  new == pending_transmissions'[e]
                  ev == [modename |-> p.modename, node_id |-> p.node_id,
                         seq |-> p.sequence_num, addr |-> d.src,
                         packet_num |-> p.packet_num]
              IN  IF key \notin DictKeys(old)
                  THEN UNCHANGED <<pending_transmissions, signal_vars>>
                  ELSE d.bytes[2] = ACK_CONFIRM =>
                          /\ key \notin DictKeys(new)
                          /\ Len(new) = Len(old) - 1
                          /\ \A i \in 1..Len(old) :
                                old[i].key # key => \E j \in 1..Len(new) : new[j] = old[i]
                          /\ Count(ack_received'[e], ev) = Count(ack_received[e], ev) + 1
                          /\ UNCHANGED <<transmission_complete, transmission_failed,
                                         port_status_changed>>]_vars

\* an ACK removed one PendingSend while others of the table stayed
C7_Witness ==
    /\ \E ev \in DOMAIN ack_received["A"] : ev.packet_num = 1
    /\ Len(pending_transmissions["A"]) >= 2

\* C8: receiving the same CONFIRM ACK again leaves the engine as it is, and
\* AckObserved is emitted exactly once per PendingSend however many
\* duplicate ACKs arrive.
C8_AckReplayIdempotent ==
    [][/\ \A e \in Engines : \A ev \in DOMAIN ack_received'[e] : ack_received'[e][ev] = 1
       /\ \A e \in Engines : \A d \in net :
             (/\ Receive(e, d)
              /\ IsAckDatagram(d.bytes)
              /\ Count(ack_received[e], AckEvent(parse(d.bytes), d.src)) > 0) =>
                 UNCHANGED <<engine_vars, signal_vars, net>>]_vars

\* the peer got the packet twice and acknowledged it again; the second ACK
\* arrived after the first had removed the PendingSend
C8_Witness ==
    /\ ack_replayed["A"]
    /\ \E ev \in DOMAIN ack_received["A"] : ack_received["A"][ev] = 1
    /\ \E ev \in DOMAIN transmission_complete["B"] : transmission_complete["B"][ev] >= 2

\* C9: no PendingSend is written to the socket more than MAX_RETRIES + 1
\* times (its first send plus all retransmissions).
C9_RetryBound ==
    \A e \in Engines : \A i \in 1..Len(pending_transmissions[e]) :
        pending_transmissions[e][i].transmissions <= MAX_RETRIES + 1

\* an entry that used up its retransmissions
C9_Witness ==
    \E i \in 1..Len(pending_transmissions["A"]) :
        /\ pending_transmissions["A"][i].retry_count >= MAX_RETRIES
        /\ pending_transmissions["A"][i].transmissions >= 2

\* the keys a PendingSend of a caller can have
KeyUniverse ==
    {<<"node", n, s, k>> : n \in {0, NodeId},
                           s \in UNION {{NextSequence(c), NextSequence(NextSequence(c))} :
                                           c \in InitCounters},
                           k \in 0..CeilDiv(MAX_DATA_SIZE + 1)}

\* C10: a PendingSend that gets no matching ACK is eventually removed from
\* the table by the retransmission loop (with one DeliveryFailed).
C10_RetryExhaustion ==
    \A key \in KeyUniverse :
        DictHas(pending_transmissions["A"], key)
            ~> ~DictHas(pending_transmissions["A"], key)

\* C11: when the datagram write of a PendingSend fails on every attempt,
\* the failed attempts count against MAX_RETRIES: the entry sees at most
\* MAX_RETRIES + 1 write attempts before it is removed with DeliveryFailed.
C11_IOErrorsBounded ==
    \A e \in Engines : \A i \in 1..Len(pending_transmissions[e]) :
        pending_transmissions[e][i].attempts <= MAX_RETRIES + 1

\* C12: when the ACK with ack_status = ACK_CHECKPORT for a pending PROBE
\* reaches the prober, the PROBE's PendingSend is removed and the ACK's
\* source address becomes online (port_status_changed(addr, true) is
\* emitted if it was offline).
C12_ProbeSuccess ==
    [][\A e \in Engines : \A d \in net :
          (/\ Receive(e, d)
           /\ IsAckDatagram(d.bytes)
           /\ d.bytes[2] = ACK_CHECKPORT
           /\ DictHas(pending_transmissions[e], AckKey(parse(d.bytes)))
           /\ DictGet(pending_transmissions[e], AckKey(parse(d.bytes))).packet.packet_type
                 = CHECK_PORT_PACKET) =>
              /\ ~DictHas(pending_transmissions'[e], AckKey(parse(d.bytes)))
              /\ is_port_online(port_check_targets'[e], d.src)
              /\ ~is_port_online(port_check_targets[e], d.src) =>
                    Count(port_status_changed'[e], [addr |-> d.src, online |-> TRUE]) >= 1]_vars

C14_LivenessHysteresis ==
    [][\A e \in Engines : \A ev \in DOMAIN port_status_changed'[e] :
          Count(port_status_changed'[e], ev) > Count(port_status_changed[e], ev) =>
              /\ is_port_online(port_check_targets'[e], ev.addr) = ev.online
              /\ is_port_online(port_check_targets[e], ev.addr) # ev.online]_vars

\* C15: however often the HEADER and DATA packets of one message are
\* replayed to the receiver, the receiver emits at most one
\* DeliveryComplete for that message.
C15_DuplicateSuppression ==
    \A e \in Engines : \A ev \in DOMAIN transmission_complete[e] :
        Len(ev.data) > MAX_DATA_SIZE => transmission_complete[e][ev] <= 1

\* the packets that have arrived at engine e, with their source address
ArrivedPackets(e) ==
    {[p |-> parse(d.bytes), src |-> d.src] : d \in {x \in arrived : x.dst = e}}

\* the DATA packets that have arrived for the message of HEADER h
FragsOf(e, h) ==
    {x \in ArrivedPackets(e) :
        /\ x.p.packet_type = DATA_PACKET /\ x.src = h.src
        /\ x.p.modename = h.p.modename /\ x.p.node_id = h.p.node_id
        /\ x.p.sequence_num = h.p.sequence_num}

\* the HEADER and every DATA packet it announces have arrived
AllArrived(e, h) ==
    {x.p.packet_num : x \in FragsOf(e, h)} = 1..h.p.packet_count

\* the payloads of fragments i..n joined in ascending fragment index
RECURSIVE JoinFrags(_, _, _)
JoinFrags(frags, i, n) ==
    IF i > n THEN <<>>
    ELSE (CHOOSE x \in frags : x.p.packet_num = i).p.data \o JoinFrags(frags, i + 1, n)

\* the DeliveryComplete events engine e emitted for the message of HEADER h
EventsOf(e, h) ==
    {ev \in DOMAIN transmission_complete[e] :
        /\ ev.modename = h.p.modename /\ ev.node_id = h.p.node_id
        /\ ev.seq = h.p.sequence_num /\ ev.addr = h.src}

\* C16: when the HEADER and the N DATA packets of a multi-fragment message
\* have each arrived exactly once, in whatever order (the HEADER possibly
\* last), the receiver has emitted exactly one DeliveryComplete, whose bytes
\* are the DATA payloads joined in ascending fragment index.
C16_OrderIndependentReassembly ==
    \A e \in Engines : \A h \in ArrivedPackets(e) :
        (/\ h.p.packet_type = HEADER_PACKET
         /\ AllArrived(e, h)
         /\ Len(JoinFrags(FragsOf(e, h), 1, h.p.packet_count)) = h.p.total_length) =>
            /\ EventsOf(e, h) # {}
            /\ \A ev \in EventsOf(e, h) :
                  /\ transmission_complete[e][ev] = 1
                  /\ ev.data = JoinFrags(FragsOf(e, h), 1, h.p.packet_count)

\* the HEADER arrived after all DATA packets and the message was delivered
C16_Witness ==
    /\ lock_stuck["B"]
    /\ \E ev \in DOMAIN transmission_complete["B"] :
          /\ ev.data = RecvTask.data
          /\ ev.modename = RecvTask.modename
          /\ transmission_complete["B"][ev] = 1

\* C17: when every packet of a PendingReceive has arrived but the joined
\* fragments' length differs from the HEADER's total_length, neither
\* DeliveryComplete nor a failure event is emitted and the PendingReceive is
\* removed from the pending-receive table.
C17_LengthMismatch ==
    \A e \in Engines : \A h \in ArrivedPackets(e) :
        (/\ h.p.packet_type = HEADER_PACKET
         /\ AllArrived(e, h)
         /\ Len(JoinFrags(FragsOf(e, h), 1, h.p.packet_count)) # h.p.total_length) =>
            /\ EventsOf(e, h) = {}
            /\ DOMAIN transmission_failed[e] = {}
            /\ <<h.src, h.p.modename, h.p.node_id, h.p.sequence_num>>
                  \notin DOMAIN pending_receptions[e]

\* the keys a PendingReceive of the callers' peer can have
RecvKeyUniverse ==
    {<<"A", "node", NodeId, s>> :
        s \in UNION {{NextSequence(c), NextSequence(NextSequence(c))} : c \in InitCounters}}

\* C18: every PendingReceive is eventually destroyed, by delivery or by
\* reclamation of stale entries: none stays in the pending-receive table
\* forever.
C18_PendingReceiveReclaimed ==
    \A k \in RecvKeyUniverse :
        (k \in DOMAIN pending_receptions["B"]) ~> (k \notin DOMAIN pending_receptions["B"])


\* C19: a send or a probe whose module name is not in the module registry
\* registers no PendingSend and transmits no datagram.
C19_UnknownModuleRejected ==
    \A e \in Engines :
        /\ \A i \in 1..Len(pending_transmissions[e]) :
              pending_transmissions[e][i].key[1] \in ModuleNames
        /\ \A d \in net : d.src = e => d.bytes # build(Packet(FULL_PACKET, ACK_NORMAL, "", 0))


\* the module identifier and node_id fields of a datagram, read from its bytes
WireModelId(b) == Unpack(b, 4, 4)
WireNodeId(b) == Unpack(b, 8, 4)

\* the identifiers of the module registry
ModuleIds == {model_id(n) : n \in ModuleNames}

\* the synthetic tag of an unregistered identifier
UnknownTag(n) == "unknown(" \o ToString(n) \o ")"

\* the well-formed FULL and HEADER datagrams that arrived at e and name an
\* unregistered module identifier
UnknownArrived(e, type) ==
    {d \in arrived :
        /\ d.dst = e
        /\ parse(d.bytes).packet_type = type
        /\ WireModelId(d.bytes) \notin ModuleIds}

\* C20: a well-formed FULL message, or a completed HEADER+DATA message,
\* whose module identifier N is not in the registry is delivered:
\* DeliveryComplete carries the tag "unknown(N)", the node_id of the message
\* and its payload.
C20_UnknownModuleDelivered ==
    \A e \in Engines :
        /\ \A d \in UnknownArrived(e, FULL_PACKET) :
              \E ev \in DOMAIN transmission_complete[e] :
                 /\ ev.modename = UnknownTag(WireModelId(d.bytes))
                 /\ ev.node_id = WireNodeId(d.bytes)
                 /\ ev.data = SliceFrom(d.bytes, HeaderSize(FULL_PACKET))
                 /\ ev.addr = d.src
        /\ \A d \in UnknownArrived(e, HEADER_PACKET) :
              LET h == [p |-> parse(d.bytes), src |-> d.src]
              IN  (/\ AllArrived(e, h)
                   /\ Len(JoinFrags(FragsOf(e, h), 1, h.p.packet_count)) = h.p.total_length) =>
                      \E ev \in DOMAIN transmission_complete[e] :
                         /\ ev.modename = UnknownTag(WireModelId(d.bytes))
                         /\ ev.node_id = WireNodeId(d.bytes)
                         /\ ev.data = JoinFrags(FragsOf(e, h), 1, h.p.packet_count)
                         /\ ev.addr = d.src

\* B delivered the FULL message of the unregistered identifier
C20_Witness ==
    /\ UnknownArrived("B", FULL_PACKET) # {}
    /\ \E ev \in DOMAIN transmission_complete["B"] :
          /\ ev.modename = UnknownTag(model_id(RecvFullTask.modename) + 1)
          /\ ev.node_id = NodeId
          /\ ev.data = RecvFullTask.data


\* C21: no event (AckObserved, DeliveryFailed, DeliveryComplete,
\* EndpointStatusChanged) is emitted while the emitting thread holds the
\* engine mutex or the liveness mutex.
C21_NoEmitUnderMutex ==
    \A e \in Engines : \A x \in emit_held[e] : x.held = {}


\* C22: after close() has returned, no DeliveryFailed is emitted for a
\* PendingSend that was outstanding at the time of close, whatever point of
\* its iteration the send loop had reached.  (An entry registered after
\* close is never transmitted, so every failure after close is the failure
\* of an entry outstanding at close.)
C22_NoFailureAfterClose ==
    [][\A e \in Engines :
          ~recv_running[e] => transmission_failed'[e] = transmission_failed[e]]_vars


\* the cached state of addr is offline / online
KnownOffline(port_status, addr) == addr \in DOMAIN port_status /\ ~port_status[addr]
ObservedOnline(port_status, addr) == addr \in DOMAIN port_status /\ port_status[addr]

C24_ServerRefusal ==
    [][server'.requests # server.requests =>
          LET addr == GetOrNone(server.node_id_to_addr, server'.request.node_id)
              refused == addr = None \/ KnownOffline(server.port_status, addr)
          IN  /\ server'.transport = server.transport
              /\ refused => server'.send_queue = server.send_queue
              /\ server'.send_queue # server.send_queue =>
                    /\ ~refused
                    /\ server'.send_queue =
                          Append(server.send_queue,
                                 SendJob(server'.request.mode_name, server'.request.data, addr))]_vars

\* a peer's message was accepted, its address was seen alive and then marked
\* offline by the idle sweeper, and a later send to the peer was refused
C24_Witness ==
    \E addr \in DispAddrs :
        /\ GetOrNone(server.node_id_to_addr, NodeId) = addr
        /\ server.dest_addr = addr
        /\ addr \in DOMAIN server.source_port_last_active
        /\ server.requested_at > server.source_port_last_active[addr] + OFFLINE_THRESHOLD
        /\ KnownOffline(server.port_status, addr)
        /\ server.requests = 1
        /\ server.request.data.serialisable
        /\ server.send_queue = <<>>
        /\ server.transport = <<>>


\* C25: on the server, PeerBinding[node_id] is the source address of the most
\* recently received valid packet carrying that node_id, whatever its kind
\* and whether or not it completed a message.
C25_PeerBindingLatest ==
    \A node_id \in DOMAIN server.last_source :
        GetOrNone(server.node_id_to_addr, node_id) = server.last_source[node_id]

\* a pass of the idle sweeper: only the port states change
ScanStep ==
    /\ server'.port_status # server.port_status
    /\ [server' EXCEPT !.port_status = server.port_status] = server

\* C26: every inbound packet from an address refreshes the address's
\* last-activity time, and the idle sweeper marks offline every address
\* whose last activity is older than OFFLINE_THRESHOLD and no other.
C26_ActivityLiveness ==
    [][/\ \A addr \in DOMAIN server'.last_inbound :
             /\ addr \in DOMAIN server'.source_port_last_active
             /\ server'.source_port_last_active[addr] = server'.last_inbound[addr]
       /\ ScanStep =>
             \A addr \in DOMAIN server.last_inbound :
                IF server.now - server.last_inbound[addr] > OFFLINE_THRESHOLD
                THEN ~server'.port_status[addr]
                ELSE GetOrNone(server'.port_status, addr)
                        = GetOrNone(server.port_status, addr)]_vars


\* C27: a PendingSend starts with sent = FALSE and retry_count = 0; its first
\* transmission leaves retry_count alone and each later one adds one to it;
\* and failure is declared for an entry only after it was transmitted once
\* and retransmitted MAX_RETRIES times.
C27_RetransmissionSchedule ==
    [][\A e \in Engines : \A i \in 1..Len(pending_transmissions[e]) :
          LET t == pending_transmissions[e][i]
              kept == DictHas(pending_transmissions'[e], t.key)
              u == DictGet(pending_transmissions'[e], t.key)
          IN  /\ ~t.sent => t.retry_count = 0 /\ t.last_sent = 0
              /\ (kept /\ u.transmissions = t.transmissions + 1) =>
                    u.retry_count = IF t.transmissions = 0 THEN t.retry_count
                                    ELSE t.retry_count + 1
              /\ (~kept /\ transmission_failed'[e] # transmission_failed[e]) =>
                    t.transmissions = MAX_RETRIES + 1]_vars


\* the multi-fragment DeliveryComplete events engine e emits in a step
NewCompletions(e) ==
    {ev \in DOMAIN transmission_complete'[e] :
        /\ Count(transmission_complete'[e], ev) > Count(transmission_complete[e], ev)
        /\ \E d \in arrived' \ arrived : d.bytes[1] \in {HEADER_PACKET, DATA_PACKET}}

\* The PendingReceive of a message at the moment its completion is emitted:
\* the entry still in the table after the step or, when the step removed it,
\* the entry of before with the arriving DATA packet stored.
ReceptionAtEmit(e, ev) ==
    LET key == <<ev.addr, ev.modename, ev.node_id, ev.seq>>
        p == parse((CHOOSE d \in arrived' \ arrived : TRUE).bytes)
    IN  IF key \in DOMAIN pending_receptions'[e]
        THEN pending_receptions'[e][key]
        ELSE [pending_receptions[e][key] EXCEPT
                !.received_packets = (p.packet_num :> p.data) @@ @]

\* the stored fragments from index i on, joined in ascending index
RECURSIVE JoinStored(_, _)
JoinStored(received, idx) ==
    IF idx = {} THEN <<>>
    ELSE LET k == CHOOSE x \in idx : \A y \in idx : x <= y
         IN  received[k] \o JoinStored(received, idx \ {k})

\* C28: DeliveryComplete for a multi-fragment message is emitted only when
\* its PendingReceive has header_received = TRUE and as many distinct stored
\* fragment indices as the header's fragment_count, and the delivered bytes
\* are the stored fragments joined in ascending fragment index, of length
\* total_length.
C28_ReassemblyCompleteness ==
    [][\A e \in Engines : \A ev \in NewCompletions(e) :
          LET r == ReceptionAtEmit(e, ev)
          IN  /\ r.header_received
              /\ Cardinality(DOMAIN r.received_packets) = r.packet_count
              /\ ev.data = JoinStored(r.received_packets, DOMAIN r.received_packets)
              /\ Len(ev.data) = r.total_length]_vars

\* a message completed by its last DATA packet: delivered and removed
C28_Witness ==
    /\ ~lock_stuck["B"]
    /\ pending_receptions["B"] = <<>>
    /\ \E ev \in DOMAIN transmission_complete["B"] : ev.data = RecvTask.data


\* the keys of the messages in flight to B in the receive scenarios
RecvScenarioKeys ==
    {<<"A", m, NodeId, RecvSeq>> :
        m \in {RecvTask.modename, UnknownTag(model_id(RecvTask.modename) + 1)}}

\* B has emitted DeliveryComplete for the multi-fragment message of key k
DeliveredAt(e, k) ==
    \E ev \in DOMAIN transmission_complete[e] :
        /\ <<ev.addr, ev.modename, ev.node_id, ev.seq>> = k
        /\ Len(ev.data) > MAX_DATA_SIZE

\* the receive thread of e can take no further step: every datagram for e
\* has arrived, or the thread is blocked or has exited
Quiescent(e) ==
    \/ lock_stuck[e]
    \/ ~recv_running[e]
    \/ \A d \in net : d.dst = e => d \in arrived

\* C29: whenever DeliveryComplete is emitted for a multi-fragment message,
\* the message's PendingReceive is subsequently removed from the
\* pending-receive table, whether the last DATA packet or a HEADER arriving
\* after all DATA packets completed it: once the receive thread can do no
\* more, no delivered message has an entry left.
C29_CompletedReceiveRemoved ==
    \A k \in RecvScenarioKeys :
        (DeliveredAt("B", k) /\ Quiescent("B")) => k \notin DOMAIN pending_receptions["B"]

\* the datagram b parses as a HEADER, DATA or FULL packet
ParsesAsPayloadKind(b) ==
    /\ Len(b) >= UDP_HEADER_SIZE
    /\ b[1] \in {HEADER_PACKET, DATA_PACKET, FULL_PACKET}
    /\ Len(b) >= HeaderSize(b[1])

\* the byte offset (0-based) of the sequence number and of the fragment
\* index in a datagram of each kind, as build() lays them out
WireSequenceOffset(b) ==
    CASE b[1] \in {HEADER_PACKET, FULL_PACKET} -> UDP_HEADER_SIZE + 8
      [] b[1] = DATA_PACKET -> UDP_HEADER_SIZE
      [] OTHER -> UDP_HEADER_SIZE + 4
WireFragmentOffset(b) ==
    CASE b[1] \in {HEADER_PACKET, FULL_PACKET} -> UDP_HEADER_SIZE + 12
      [] b[1] = DATA_PACKET -> UDP_HEADER_SIZE + 4
      [] OTHER -> UDP_HEADER_SIZE

\* the datagram a is a confirming ACK for the datagram d, sent back to d's
\* source by the engine that read d
ConfirmsDatagram(a, d) ==
    /\ a.src = d.dst
    /\ a.dst = d.src
    /\ parse(a.bytes).packet_type = ACK_PACKET
    /\ parse(a.bytes).ack_status = ACK_CONFIRM
    /\ WireModelId(a.bytes) = WireModelId(d.bytes)
    /\ WireNodeId(a.bytes) = WireNodeId(d.bytes)
    /\ UnpackSeq(a.bytes, WireSequenceOffset(a.bytes))
          = UnpackSeq(d.bytes, WireSequenceOffset(d.bytes))
    /\ Unpack(a.bytes, WireFragmentOffset(a.bytes), 4)
          = Unpack(d.bytes, WireFragmentOffset(d.bytes), 4)

\* C30: every HEADER, DATA or FULL packet that parses, whatever its module
\* identifier, makes the engine that reads it send exactly one datagram, to
\* the packet's source, and that datagram parses as an ACK packet with
\* CONFIRM status and the packet's module, node_id, sequence and
\* fragment_index.
C30_EveryPayloadPacketAcked ==
    [][\A d \in arrived' \ arrived :
          ParsesAsPayloadKind(d.bytes) =>
              /\ Cardinality(net' \ net) = 1
              /\ \A a \in net' \ net : ConfirmsDatagram(a, d)]_vars

\* the datagram a answers the probe d: an ACK to d's source with the
\* status byte ACK_CHECKPORT and d's sequence number and fragment index
AnswersProbe(a, d) ==
    /\ a.src = d.dst
    /\ a.dst = d.src
    /\ Len(a.bytes) = HeaderSize(ACK_PACKET)
    /\ a.bytes[1] = ACK_PACKET
    /\ a.bytes[2] = ACK_CHECKPORT
    /\ UnpackSeq(a.bytes, WireSequenceOffset(a.bytes))
          = UnpackSeq(d.bytes, WireSequenceOffset(d.bytes))
    /\ Unpack(a.bytes, WireFragmentOffset(a.bytes), 4)
          = Unpack(d.bytes, WireFragmentOffset(d.bytes), 4)

WireChecksum(b) == SumBytes([b EXCEPT ![3] = 0, ![4] = 0]) % CHECKSUM_MOD

\* C32: every packet registered as a PendingSend (FULL, HEADER, each DATA
\* fragment, PROBE) carries, as transmitted, a checksum field equal to the
\* 16-bit truncated sum of the bytes of its header with the checksum field
\* zeroed plus its payload, so that verify_checksum() holds for it.
C32_RegisteredChecksumValid ==
    \A e \in Engines : \A i \in 1..Len(pending_transmissions[e]) :
        LET p == pending_transmissions[e][i].packet
            b == build(p)
        IN  /\ Unpack(b, 2, 2) = WireChecksum(b)
            /\ verify_checksum(p)

\* C33: no thread requests the engine mutex while it holds the liveness
\* mutex, and a thread that holds both acquired the engine mutex first.
C33_LockOrdering ==
    \A t \in Threads :
        /\ NextEvent(t) = Acquire("lock") => "port_check_lock" \notin HeldBy(t)
        /\ HeldBy(t) = Mutexes => threads[t].held = <<"lock", "port_check_lock">>

\* a thread holds both mutexes, and another has been through the liveness
\* mutex and now requests the engine mutex
C33_Witness ==
    \E t, u \in Threads :
        /\ HeldBy(t) = Mutexes
        /\ threads[u].routine = "check_port"
        /\ threads[u].pos = Len(LockProgram("check_port")) - 1

\* the registered message of the job j
MessagesOf(j) ==
    {m \in sent_log : m.modename = j.mode_name /\ m.data = j.data /\ m.dest_addr = j.dest_addr}

\* C34: jobs accepted by the dispatcher reach the send pipeline in the
\* order they were enqueued: if j1 is accepted before j2, j2's sequence
\* number is not allocated before j1's.
C34_FifoHandoff ==
    \A i, k \in 1..Len(client.accepted) :
        (i < k /\ client.accepted[i] # client.accepted[k]) =>
            \A m1 \in MessagesOf(client.accepted[i]) :
                \A m2 \in MessagesOf(client.accepted[k]) :
                    m1.prev_counter # m2.seq

\* C35: the receive thread never blocks for good on the engine mutex: no
\* packet handler requests the non-reentrant mutex while it holds it, so
\* after any packet (a HEADER completing a message whose DATA packets all
\* arrived earlier included) the mutex is free again.
C35_ReceiverNeverBlocks == \A e \in Engines : ~lock_stuck[e]

\* C36: the retransmission pass never looks up a PendingSend that the
\* receive thread removed between the selection of the keys under the
\* mutex and the transmission after it: the send thread does not end
\* abnormally while the engine is running.
C36_SendThreadSurvives ==
    \A e \in Engines : recv_running[e] => send_pc[e] # "dead"

\* the DeliveryFailed events e has emitted for its message m
FailuresOf(e, m) ==
    {ev \in DOMAIN transmission_failed[e] :
        ev.seq = m.seq /\ ev.modename = m.modename /\ ev.node_id = m.node_id}

\* C37: one send call leads to at most one DeliveryFailed event, also for a
\* multi-fragment message of which several packets exhaust their retries.
C37_OneFailurePerSend ==
    \A m \in sent_log :
        /\ Cardinality(FailuresOf(m.src, m)) <= 1
        /\ \A ev \in FailuresOf(m.src, m) : Count(transmission_failed[m.src], ev) = 1

\* the peer has emitted DeliveryComplete for the message m
DeliveredAtPeer(m) ==
    \E ev \in DOMAIN transmission_complete[Peer(m.src)] :
        /\ ev.seq = m.seq
        /\ ev.modename = m.modename
        /\ ev.node_id = m.node_id
        /\ ev.addr = m.src
        /\ ev.data = m.data

\* C38 as stated: if DeliveryFailed is emitted at the sender for a message,
\* the receiving peer has not emitted DeliveryComplete for it.
C38_FailedNotDelivered ==
    \A m \in sent_log : FailuresOf(m.src, m) # {} => ~DeliveredAtPeer(m)

\* C38 amended: if DeliveryFailed is emitted at the sender for a packet, the
\* sender has observed no ACK for that packet (the peer may have received
\* the packet and delivered the message all the same).
C38_FailedNotAcknowledged ==
    \A e \in Engines : \A f \in DOMAIN transmission_failed[e] :
        \A a \in DOMAIN ack_received[e] :
            <<a.modename, a.node_id, a.seq, a.packet_num>>
                # <<f.modename, f.node_id, f.seq, f.packet_num>>

\* a message was delivered at the peer and reported as failed at the sender
C38_Witness ==
    \E m \in sent_log : FailuresOf(m.src, m) # {} /\ DeliveredAtPeer(m)

\* C39: a PendingSend is removed by an ACK only if the ACK came from the
\* entry's destination address; an ACK with a matching key received from
\* any other address leaves the entry in place and marks no endpoint
\* online.
C39_AckFromDestinationOnly ==
    [][\A e \in Engines : \A d \in net :
          (Receive(e, d) /\ IsAckDatagram(d.bytes)) =>
              \A i \in 1..Len(pending_transmissions[e]) :
                  LET t == pending_transmissions[e][i]
                  IN  t.dest_addr # d.src =>
                          /\ DictHas(pending_transmissions'[e], t.key)
                          /\ (AckKey(parse(d.bytes)) = t.key =>
                                 UNCHANGED <<port_check_targets, port_status_changed>>)]_vars

\* C40: in the client role the dispatcher's destination address changes
\* only through set_destination; receiving a message, from whatever
\* source address, leaves it (and so the address later sends go to) as it
\* was.
C40_DestinationOnlySet ==
    [][client'.dest_addr # client.dest_addr =>
          \E addr \in DispAddrs \cup {None} :
              client' = check_port_online([client EXCEPT !.dest_addr = addr])]_vars

====
